---------------------------- MODULE Spec2Model ----------------------------
(***************************************************************************)
(* SniffBot (sniffbot-a2a): a model of the message dispatcher              *)
(* (agent.py), the retry wrapper around the AI call, the code extractor    *)
(* (utils/code_extractor.py), the diff generator (utils/diff.py) and the   *)
(* JSON-RPC endpoint with its rate limiter (main.py), and the scheduler    *)
(* (scheduler.py) that the lifespan of main.py starts and stops.           *)
(*                                                                         *)
(* A text is a sequence of characters, each a one-character string.  Two   *)
(* characters cannot be written as a TLA+ string and have a name instead:  *)
(* BQ is the backtick, and a name starting "U+" is the character with that *)
(* code point.  Python's str operations (in, lower, strip, splitlines,     *)
(* join) and the regular expressions of the source are operators on such   *)
(* sequences.                                                              *)
(***************************************************************************)
EXTENDS Integers, Sequences, FiniteSets, TLC

(***************************************************************************)
(* Characters and Python's str operations.                                 *)
(***************************************************************************)
BQ == "BQ"
NL == "\n"
TAB == "\t"
SP == " "

Whitespace == {SP, NL, TAB}

UpperLetters ==
  <<"A","B","C","D","E","F","G","H","I","J","K","L","M",
    "N","O","P","Q","R","S","T","U","V","W","X","Y","Z">>

LowerLetters ==
  <<"a","b","c","d","e","f","g","h","i","j","k","l","m",
    "n","o","p","q","r","s","t","u","v","w","x","y","z">>

Digits == {"0","1","2","3","4","5","6","7","8","9"}

\* The regular expression class \w.
WordChars ==
  {UpperLetters[i] : i \in 1..26} \cup {LowerLetters[i] : i \in 1..26}
    \cup Digits \cup {"_"}

\* str.lower() of one character.
LowerChar(c) ==
  IF \E i \in 1..26 : UpperLetters[i] = c
    THEN LowerLetters[CHOOSE i \in 1..26 : UpperLetters[i] = c]
    ELSE c

\* str.lower()
Lower(s) == [i \in 1..Len(s) |-> LowerChar(s[i])]

\* s[i:] starts with p (Python: s.startswith(p, i-1)).
MatchAt(s, p, i) ==
  /\ i >= 1
  /\ i + Len(p) - 1 <= Len(s)
  /\ \A j \in 1..Len(p) : s[i + j - 1] = p[j]

\* p in s
Contains(s, p) == \E i \in 1..(Len(s) - Len(p) + 1) : MatchAt(s, p, i)

\* min(S) and max(S) of a set of indices, 0 for the empty set
MinOf(S) == IF S = {} THEN 0 ELSE CHOOSE i \in S : \A k \in S : i <= k
MaxOf(S) == IF S = {} THEN 0 ELSE CHOOSE i \in S : \A k \in S : i >= k

\* s.find(p, from): the least index >= from where p occurs, 0 when none.
Find(s, p, from) ==
  MinOf({i \in from..(Len(s) - Len(p) + 1) : MatchAt(s, p, i)})

\* s[a-1:b] for 1-based inclusive a..b; empty when a > b.
Slice(s, a, b) == IF a > b THEN <<>> ELSE SubSeq(s, a, b)

\* str.lstrip(), str.rstrip(), str.strip()
LStrip(s) ==
  IF \A i \in 1..Len(s) : s[i] \in Whitespace THEN <<>>
  ELSE Slice(s, MinOf({i \in 1..Len(s) : s[i] \notin Whitespace}), Len(s))

RStrip(s) ==
  Slice(s, 1, MaxOf({i \in 1..Len(s) : s[i] \notin Whitespace}))

Strip(s) == LStrip(RStrip(s))

\* sep.join(items)
RECURSIVE Join(_, _)
Join(sep, items) ==
  IF items = <<>> THEN <<>>
  ELSE IF Len(items) = 1 THEN items[1]
  ELSE items[1] \o sep \o Join(sep, Tail(items))

\* str.splitlines(keepends): the text cut after every newline; no empty last
\* line when the text ends with a newline.  n is where the first newline is.
RECURSIVE SplitLines(_, _)
SplitAt(s, keepends, n) ==
  IF n = 0 THEN <<s>>
  ELSE <<Slice(s, 1, IF keepends THEN n ELSE n - 1)>>
         \o SplitLines(Slice(s, n + 1, Len(s)), keepends)

SplitLines(s, keepends) ==
  IF s = <<>> THEN <<>> ELSE SplitAt(s, keepends, Find(s, <<NL>>, 1))

\* any(k in s for k in keys)
ContainsAny(s, keys) == \E k \in keys : Contains(s, k)

(***************************************************************************)
(* utils/code_extractor.py                                                 *)
(***************************************************************************)
Fence == <<BQ, BQ, BQ>>

\* The longest run of \w characters of s starting at index i.
RECURSIVE WordRun(_, _)
WordRun(s, i) ==
  IF i <= Len(s) /\ s[i] \in WordChars THEN <<s[i]>> \o WordRun(s, i + 1)
  ELSE <<>>

NoMatch == [found |-> FALSE, g1 |-> <<>>, g2 |-> <<>>]

\* One attempt of r"```(\w+)?\n(.*?)\n```" (DOTALL) at index i: the opening
\* fence, the optional tag (greedy: the whole run of \w, since a newline must
\* follow it), a newline at index nl, the shortest body that a newline and a
\* fence follow, at index close.
FencedBody(s, nl, tag, close) ==
  IF close = 0 THEN NoMatch
  ELSE [found |-> TRUE, g1 |-> tag, g2 |-> Slice(s, nl + 1, close - 1)]

FencedTag(s, nl, tag) ==
  IF nl <= Len(s) /\ s[nl] = NL
    THEN FencedBody(s, nl, tag, Find(s, <<NL>> \o Fence, nl + 1))
    ELSE NoMatch

FencedAt(s, i) ==
  IF MatchAt(s, Fence, i)
    THEN FencedTag(s, i + 3 + Len(WordRun(s, i + 3)), WordRun(s, i + 3))
    ELSE NoMatch

\* re.search of the fenced pattern: the leftmost index where an attempt matches.
FencedFrom(s, i) == IF i = 0 THEN NoMatch ELSE FencedAt(s, i)

FencedSearch(s) ==
  FencedFrom(s, MinOf({i \in 1..Len(s) : FencedAt(s, i).found}))

\* One attempt of r"`{1,3}(?!`)(.*?)(?<!`)`{1,3}" at index i with an opening
\* of k backticks: no backtick follows the opening; the group is the shortest
\* stretch without a newline ('.' without DOTALL) that does not end in a
\* backtick (the lookbehind, which also refuses an empty group right after the
\* opening) and that a backtick follows, at index close.
InlineGroup(s, open, close) ==
  IF close = 0 THEN NoMatch
  ELSE [found |-> TRUE, g1 |-> Slice(s, open, close - 1), g2 |-> <<>>]

InlineAt(s, i, k) ==
  IF /\ \A m \in i..(i + k - 1) : m <= Len(s) /\ s[m] = BQ
     /\ (i + k > Len(s) \/ s[i + k] # BQ)
    THEN InlineGroup(s, i + k,
           MinOf({j \in (i + k)..Len(s) :
                    /\ s[j] = BQ
                    /\ s[j - 1] # BQ
                    /\ \A m \in (i + k)..(j - 1) : s[m] # NL}))
    ELSE NoMatch

\* re.search of the inline pattern: leftmost index, the longest opening first.
InlineFrom(s, i) ==
  IF i = 0 THEN NoMatch
  ELSE InlineAt(s, i, MaxOf({k \in 1..3 : InlineAt(s, i, k).found}))

InlineSearch(s) ==
  InlineFrom(s, MinOf({i \in 1..Len(s) : \E k \in 1..3 : InlineAt(s, i, k).found}))

\* The number of spaces a line starts with.
RECURSIVE LeadingSpaces(_)
LeadingSpaces(line) ==
  IF line # <<>> /\ Head(line) = SP THEN 1 + LeadingSpaces(Tail(line)) ELSE 0

\* re.match(r"^ {4,}|\t", line): four or more spaces, or a tab, at the start.
IsIndented(line) ==
  LeadingSpaces(line) >= 4 \/ (line # <<>> /\ Head(line) = TAB)

\* re.sub(r"^ {4,}|\t", "", line, count=1): the leading spaces when there are
\* four or more, else the first tab of the line, at index t.
CutAt(line, t) ==
  IF t = 0 THEN line
  ELSE Slice(line, 1, t - 1) \o Slice(line, t + 1, Len(line))

Dedent(line) ==
  IF LeadingSpaces(line) >= 4
    THEN Slice(line, LeadingSpaces(line) + 1, Len(line))
    ELSE CutAt(line, Find(line, <<TAB>>, 1))

\* [re.sub(...) for line in lines]
DedentAll(lines) == [i \in 1..Len(lines) |-> Dedent(lines[i])]

\* [line for line in lines if re.match(r"^ {4,}|\t", line)]
RECURSIVE IndentedLines(_)
IndentedLines(lines) ==
  IF lines = <<>> THEN <<>>
  ELSE (IF IsIndented(Head(lines)) THEN <<Head(lines)>> ELSE <<>>)
         \o IndentedLines(Tail(lines))

CodeKeywords ==
  { <<"d","e","f"," ">>, <<"f","u","n","c","t","i","o","n"," ">>,
    <<"c","o","n","s","t"," ">>, <<"l","e","t"," ">>, <<"v","a","r"," ">>,
    <<"c","l","a","s","s"," ">>, <<"i","m","p","o","r","t"," ">>,
    <<"f","r","o","m"," ">>, <<"a","s","y","n","c"," ">>,
    <<"a","w","a","i","t"," ">>, <<"r","e","t","u","r","n"," ">>,
    <<"i","f"," ">>, <<"f","o","r"," ">>, <<"w","h","i","l","e"," ">>,
    <<"s","e","l","e","c","t"," ">>, <<"i","n","s","e","r","t"," ">>,
    <<"=",">">>, <<"-",">">>, <<"{">>, <<"}">>, <<"(">>, <<")">>, <<"[">>,
    <<"]">>, <<"=">>, <<"=","=">>, <<"+","=">>, <<":">>, <<";">>, <<"#">> }

_is_likely_code_line(line) == ContainsAny(Lower(line), CodeKeywords)

PythonMarkers ==
  { <<"d","e","f"," ">>, <<"p","r","i","n","t","(">>,
    <<"i","m","p","o","r","t"," ">>, <<"f","r","o","m"," ">>,
    <<"s","e","l","f",".">> }

JavaScriptMarkers ==
  { <<"f","u","n","c","t","i","o","n"," ">>, <<"c","o","n","s","t"," ">>,
    <<"l","e","t"," ">>, <<"v","a","r"," ">>, <<"=",">">>,
    <<"c","o","n","s","o","l","e",".","l","o","g">> }

GoMarkers ==
  { <<"f","u","n","c"," ">>, <<"p","a","c","k","a","g","e"," ">>,
    <<"i","m","p","o","r","t"," ">>, <<"t","y","p","e"," ">>,
    <<"s","t","r","u","c","t"," ">> }

SqlMarkers ==
  { <<"s","e","l","e","c","t"," ">>, <<"f","r","o","m"," ">>,
    <<"w","h","e","r","e"," ">>, <<"i","n","s","e","r","t"," ","i","n","t","o">>,
    <<"u","p","d","a","t","e"," ">>, <<"d","e","l","e","t","e"," ">> }

JavaMarkers ==
  { <<"p","u","b","l","i","c"," ","c","l","a","s","s">>, <<"v","o","i","d"," ">>,
    <<"n","e","w"," ">>, <<"r","e","t","u","r","n"," ">> }

ShellMarkers ==
  { <<"e","c","h","o"," ">>, <<"$">>, <<"e","x","p","o","r","t"," ">>,
    <<"s","u","d","o"," ">> }

LangUnknown == <<"u","n","k","n","o","w","n">>

\* _detect_language answering "" where it answers "unknown".
DetectInOrEmpty(code, code_lower) ==
  IF code = <<>> THEN <<>>
  ELSE IF ContainsAny(code_lower, PythonMarkers)
    THEN <<"p","y","t","h","o","n">>
  ELSE <<>>

DetectIn(code, code_lower) ==
  IF code = <<>> THEN LangUnknown
  ELSE IF ContainsAny(code_lower, PythonMarkers)
    THEN <<"p","y","t","h","o","n">>
  ELSE IF ContainsAny(code_lower, JavaScriptMarkers)
    THEN <<"j","a","v","a","s","c","r","i","p","t">>
  ELSE IF ContainsAny(code_lower, GoMarkers) THEN <<"g","o">>
  ELSE IF ContainsAny(code_lower, SqlMarkers) THEN <<"s","q","l">>
  ELSE IF ContainsAny(code_lower, JavaMarkers) /\ Contains(code, <<"{">>)
    THEN <<"j","a","v","a">>
  ELSE IF ContainsAny(code_lower, ShellMarkers) /\ ~Contains(code, Fence)
    THEN <<"b","a","s","h">>
  ELSE LangUnknown

_detect_language(code) == DetectIn(code, Lower(code))

Extracted(code, lang) == [code |-> code, lang |-> lang]

\* The loop of step 4: the lines that are not blank and look like code.
RECURSIVE CodeLines(_)
CodeLines(lines) ==
  IF lines = <<>> THEN <<>>
  ELSE (IF Strip(Head(lines)) # <<>> /\ _is_likely_code_line(Strip(Head(lines)))
          THEN <<Head(lines)>> ELSE <<>>)
         \o CodeLines(Tail(lines))

\* Step 4 of extract_code, reached when steps 1 to 3 returned nothing.
HeuristicCode(code_lines, code) ==
  IF code_lines # <<>> THEN Extracted(code, _detect_language(code))
  ELSE Extracted(<<>>, <<>>)

HeuristicLines(code_lines) ==
  HeuristicCode(code_lines, Strip(Join(<<NL>>, code_lines)))

ExtractHeuristic(text) == HeuristicLines(CodeLines(SplitLines(text, FALSE)))

\* Step 3 of extract_code, falling through to step 4.
IndentedCode(text, indented_lines, code) ==
  IF indented_lines # <<>> /\ code # <<>>
    THEN Extracted(code, _detect_language(code))
    ELSE ExtractHeuristic(text)

IndentedFound(text, indented_lines) ==
  IndentedCode(text, indented_lines,
               Strip(Join(<<NL>>, DedentAll(indented_lines))))

ExtractIndented(text) ==
  IndentedFound(text, IndentedLines(SplitLines(text, FALSE)))

\* Step 2 of extract_code, falling through to step 3.
InlineCode(text, inline_match) ==
  IF inline_match.found /\ Strip(inline_match.g1) # <<>>
    THEN Extracted(Strip(inline_match.g1), LangUnknown)
    ELSE ExtractIndented(text)

ExtractInline(text) == InlineCode(text, InlineSearch(text))

\* Steps 1 and 2 in the other order: inline code is looked for before the
\* fenced block.
FencedCodeAfterInline(text, fenced_match) ==
  IF InlineSearch(text).found /\ Strip(InlineSearch(text).g1) # <<>>
    THEN Extracted(Strip(InlineSearch(text).g1), LangUnknown)
  ELSE IF fenced_match.found /\ RStrip(fenced_match.g2) # <<>>
    THEN Extracted(RStrip(fenced_match.g2),
                   IF fenced_match.g1 # <<>> THEN Lower(fenced_match.g1)
                   ELSE LangUnknown)
  ELSE ExtractIndented(text)

\* Step 1 of extract_code, falling through to step 2.
FencedCode(text, fenced_match) ==
  IF fenced_match.found /\ RStrip(fenced_match.g2) # <<>>
    THEN Extracted(RStrip(fenced_match.g2),
                   IF fenced_match.g1 # <<>> THEN Lower(fenced_match.g1)
                   ELSE LangUnknown)
    ELSE ExtractInline(text)

ExtractFenced(text) == FencedCode(text, FencedSearch(text))

\* extract_code(text) for a str argument: (code, language).
extract_code(text) ==
  IF Strip(text) = <<>> THEN Extracted(<<>>, <<>>)
  ELSE ExtractFenced(Strip(text))

(***************************************************************************)
(* Python values, where the type of a value is not fixed by the code (the  *)
(* parsed AI response and what is read out of it): records tagged by their *)
(* type.  A call that raises is the record Raise(exception).               *)
(***************************************************************************)
Str(s) == [type |-> "str", s |-> s]
None == [type |-> "NoneType"]
Num(n) == [type |-> "int", n |-> n]
List(items) == [type |-> "list", items |-> items]
\* A dict: fields is a function from the keys present to their values.
Dict(fields) == [type |-> "dict", fields |-> fields]

IsStr(v) == v.type = "str"
IsDict(v) == v.type = "dict"

\* bool(v)
Truthy(v) ==
  CASE v.type = "str" -> v.s # <<>>
    [] v.type = "NoneType" -> FALSE
    [] v.type = "int" -> v.n # 0
    [] v.type = "list" -> v.items # <<>>
    [] v.type = "dict" -> DOMAIN v.fields # {}

\* extract_code(text) for an argument of any type: code_extractor.py 28-30,
\* then the rest.
ExtractCodeOf(text) ==
  IF ~Truthy(text) \/ ~IsStr(text) THEN Extracted(<<>>, <<>>)
  ELSE extract_code(text.s)

Raise(exc) == [raised |-> TRUE, exc |-> exc]
Return(v) == [raised |-> FALSE, value |-> v]

(***************************************************************************)
(* difflib.unified_diff(a, b, fromfile, tofile, lineterm="", n=3) of the   *)
(* standard library, for lists of lines shorter than the 200 lines where   *)
(* SequenceMatcher's autojunk starts.  Indices are Python's: a[i] is the   *)
(* model's a[i + 1], ranges are half-open.                                 *)
(***************************************************************************)
DigitChars == <<"0","1","2","3","4","5","6","7","8","9">>

\* str(n) for n >= 0
RECURSIVE NatStr(_)
NatStr(n) ==
  IF n < 10 THEN <<DigitChars[n + 1]>>
  ELSE NatStr(n \div 10) \o <<DigitChars[(n % 10) + 1]>>

\* The best of a set of blocks (i, j, k): the longest, of those the one
\* starting earliest in a, of those the one starting earliest in b.
BestBlock(blocks, alo, blo) ==
  IF blocks = {} THEN <<alo, blo, 0>>
  ELSE CHOOSE c \in blocks : \A o \in blocks :
         \/ c[3] > o[3]
         \/ c[3] = o[3] /\ c[1] < o[1]
         \/ c[3] = o[3] /\ c[1] = o[1] /\ c[2] <= o[2]

\* SequenceMatcher.find_longest_match: the longest block a[i:i+k] == b[j:j+k]
\* in a[alo:ahi], b[blo:bhi].
find_longest_match(a, b, alo, ahi, blo, bhi) ==
  BestBlock({c \in (alo..(ahi - 1)) \X (blo..(bhi - 1)) \X (1..(ahi - alo)) :
               /\ c[1] + c[3] <= ahi
               /\ c[2] + c[3] <= bhi
               /\ \A d \in 0..(c[3] - 1) : a[c[1] + d + 1] = b[c[2] + d + 1]},
            alo, blo)

\* SequenceMatcher.get_matching_blocks, without the closing (la, lb, 0): the
\* blocks left of the longest match x, x, the blocks right of it.
RECURSIVE matching_blocks(_, _, _, _, _, _)
blocks_around(a, b, alo, ahi, blo, bhi, x) ==
  IF x[3] = 0 THEN <<>>
  ELSE (IF alo < x[1] /\ blo < x[2]
          THEN matching_blocks(a, b, alo, x[1], blo, x[2]) ELSE <<>>)
       \o <<x>>
       \o (IF x[1] + x[3] < ahi /\ x[2] + x[3] < bhi
             THEN matching_blocks(a, b, x[1] + x[3], ahi, x[2] + x[3], bhi)
             ELSE <<>>)

matching_blocks(a, b, alo, ahi, blo, bhi) ==
  blocks_around(a, b, alo, ahi, blo, bhi,
                find_longest_match(a, b, alo, ahi, blo, bhi))

Opcode(tag, i1, i2, j1, j2) ==
  [tag |-> tag, i1 |-> i1, i2 |-> i2, j1 |-> j1, j2 |-> j2]

\* SequenceMatcher.get_opcodes: blocks is what is left of the matching blocks
\* (the closing block included), (i, j) where the previous block ended, and
\* (ai, bj, size) the block at hand.
RECURSIVE opcodes_from(_, _, _)
opcodes_block(blocks, i, j, ai, bj, size) ==
  (IF i < ai /\ j < bj THEN <<Opcode("replace", i, ai, j, bj)>>
   ELSE IF i < ai THEN <<Opcode("delete", i, ai, j, bj)>>
   ELSE IF j < bj THEN <<Opcode("insert", i, ai, j, bj)>>
   ELSE <<>>)
  \o (IF size > 0 THEN <<Opcode("equal", ai, ai + size, bj, bj + size)>>
      ELSE <<>>)
  \o opcodes_from(Tail(blocks), ai + size, bj + size)

opcodes_from(blocks, i, j) ==
  IF blocks = <<>> THEN <<>>
  ELSE opcodes_block(blocks, i, j, Head(blocks)[1], Head(blocks)[2],
                     Head(blocks)[3])

get_opcodes(a, b) ==
  opcodes_from(matching_blocks(a, b, 0, Len(a), 0, Len(b))
                 \o << <<Len(a), Len(b), 0>> >>, 0, 0)

Max(x, y) == IF x >= y THEN x ELSE y
Min(x, y) == IF x <= y THEN x ELSE y

\* The loop of SequenceMatcher.get_grouped_opcodes: codes is what is left of
\* the opcodes, c the one at hand, group the group being filled; the groups,
\* in order.
RECURSIVE group_loop(_, _, _)
group_step(codes, c, group, n) ==
  IF c.tag = "equal" /\ c.i2 - c.i1 > n + n
    THEN <<Append(group, Opcode("equal", c.i1, Min(c.i2, c.i1 + n),
                                 c.j1, Min(c.j2, c.j1 + n)))>>
         \o group_loop(Tail(codes),
              <<Opcode("equal", Max(c.i1, c.i2 - n), c.i2,
                       Max(c.j1, c.j2 - n), c.j2)>>, n)
    ELSE group_loop(Tail(codes), Append(group, c), n)

group_loop(codes, group, n) ==
  IF codes = <<>>
    THEN IF group # <<>> /\ ~(Len(group) = 1 /\ group[1].tag = "equal")
           THEN <<group>> ELSE <<>>
  ELSE group_step(codes, Head(codes), group, n)

\* "if not codes: codes = [("equal", 0, 1, 0, 1)]"
codes_or_default(codes) ==
  IF codes = <<>> THEN <<Opcode("equal", 0, 1, 0, 1)>> ELSE codes

\* "if codes[0][0] == 'equal'": the leading equal block cut to its last n.
trim_first(codes, f, n) ==
  IF f.tag = "equal"
    THEN [codes EXCEPT ![1] = Opcode("equal", Max(f.i1, f.i2 - n), f.i2,
                                     Max(f.j1, f.j2 - n), f.j2)]
    ELSE codes

\* "if codes[-1][0] == 'equal'": the closing equal block cut to its first n.
trim_last(codes, l, n) ==
  IF l.tag = "equal"
    THEN [codes EXCEPT ![Len(codes)] = Opcode("equal", l.i1, Min(l.i2, l.i1 + n),
                                              l.j1, Min(l.j2, l.j1 + n))]
    ELSE codes

trimmed_first(codes, n) == trim_first(codes, codes[1], n)
trimmed_last(codes, n) == trim_last(codes, codes[Len(codes)], n)

get_grouped_opcodes(a, b, n) ==
  group_loop(trimmed_last(trimmed_first(codes_or_default(get_opcodes(a, b)), n),
                          n), <<>>, n)

\* difflib._format_range_unified
_format_range_unified(start, stop) ==
  LET length == stop - start
  IN  IF length = 1 THEN NatStr(start + 1)
      ELSE NatStr(IF length = 0 THEN start ELSE start + 1)
             \o <<",">> \o NatStr(length)

\* [prefix + line for line in lines[lo:hi]]
Prefixed(prefix, lines, lo, hi) ==
  [k \in 1..(hi - lo) |-> <<prefix>> \o lines[lo + k]]

\* The lines unified_diff yields for the opcodes of one group, c the opcode
\* at hand.
RECURSIVE group_lines(_, _, _)
opcode_lines(group, c, a, b) ==
  (IF c.tag = "equal" THEN Prefixed(" ", a, c.i1, c.i2)
   ELSE (IF c.tag \in {"replace", "delete"}
           THEN Prefixed("-", a, c.i1, c.i2) ELSE <<>>)
        \o (IF c.tag \in {"replace", "insert"}
              THEN Prefixed("+", b, c.j1, c.j2) ELSE <<>>))
  \o group_lines(Tail(group), a, b)

group_lines(group, a, b) ==
  IF group = <<>> THEN <<>> ELSE opcode_lines(group, Head(group), a, b)

\* The "@@ -range +range @@" line of a group and its lines, then the rest.
RECURSIVE hunks(_, _, _)
hunk(groups, g, first, last, a, b) ==
  << <<"@","@"," ","-">> \o _format_range_unified(first.i1, last.i2)
       \o <<" ","+">> \o _format_range_unified(first.j1, last.j2)
       \o <<" ","@","@">> >>
  \o group_lines(g, a, b)
  \o hunks(Tail(groups), a, b)

hunks(groups, a, b) ==
  IF groups = <<>> THEN <<>>
  ELSE hunk(groups, Head(groups), Head(groups)[1],
            Head(groups)[Len(Head(groups))], a, b)

\* list(difflib.unified_diff(a, b, fromfile="original", tofile="fixed",
\*                           lineterm="", n=3))
diff_of_groups(groups, a, b) ==
  IF groups = <<>> THEN <<>>
  ELSE << <<"-","-","-"," ","o","r","i","g","i","n","a","l">>,
          <<"+","+","+"," ","f","i","x","e","d">> >>
       \o hunks(groups, a, b)

unified_diff(a, b) == diff_of_groups(get_grouped_opcodes(a, b, 3), a, b)

(***************************************************************************)
(* utils/diff.py                                                           *)
(***************************************************************************)
NoChangesDiff ==
  <<BQ,BQ,BQ,"d","i","f","f",NL,"#"," ","N","o"," ","c","h","a","n","g","e","s",
    " ","d","e","t","e","c","t","e","d",NL,BQ,BQ,BQ>>

\* The lines of a text with their endings, the last one given the newline it
\* lacks (diff.py lines 33 to 40).
EndWithNewline(lines, n) ==
  IF n > 0 /\ lines[n][Len(lines[n])] # NL
    THEN [lines EXCEPT ![n] = lines[n] \o <<NL>>]
    ELSE lines

DiffLines(text) ==
  EndWithNewline(SplitLines(text, TRUE), Len(SplitLines(text, TRUE)))

\* line.startswith(('---', '+++', '@@'))
IsHeaderLike(line) ==
  \/ MatchAt(line, <<"-","-","-">>, 1)
  \/ MatchAt(line, <<"+","+","+">>, 1)
  \/ MatchAt(line, <<"@","@">>, 1)

\* "original = original or ''"
OrEmpty(v) == IF Truthy(v) THEN v ELSE Str(<<>>)

\* diff.py 59-60 without the test of line 55.
DiffBlockAlways(diff_lines) ==
  <<BQ,BQ,BQ,"d","i","f","f",NL>>
    \o RStrip(Join(<<>>, diff_lines)) \o <<NL>> \o Fence

\* The fenced block create_diff returns for the lines of unified_diff.
DiffBlock(diff_lines) ==
  IF diff_lines = <<>>
       \/ \A k \in 1..Len(diff_lines) : IsHeaderLike(diff_lines[k])
    THEN NoChangesDiff
    ELSE <<BQ,BQ,BQ,"d","i","f","f",NL>>
           \o RStrip(Join(<<>>, diff_lines)) \o <<NL>> \o Fence

DiffOf(o, f) ==
  IF ~IsStr(o) \/ ~IsStr(f) THEN Raise("AttributeError")
  ELSE Return(DiffBlock(unified_diff(DiffLines(o.s), DiffLines(f.s))))

\* create_diff(original, fixed).  "x or ''" keeps a truthy argument that is
\* not a str, and str.splitlines is then looked up on it, outside the try.
create_diff(original, fixed) == DiffOf(OrEmpty(original), OrEmpty(fixed))

(***************************************************************************)
(* The literal texts of agent.py.                                          *)
(***************************************************************************)
TxtMedium == <<"M","e","d","i","u","m">>

TxtLow == <<"L","o","w">>

TxtHigh == <<"H","i","g","h">>

TxtRateLimit == <<"r","a","t","e"," ","l","i","m","i","t">>

KwSniffThis == <<"s","n","i","f","f"," ","t","h","i","s">>

KwFixLast == <<"f","i","x"," ","l","a","s","t">>

KwMention == <<"@","s","n","i","f","f","b","o","t">>

TriggerSniffThis ==
  <<
    "@","s","n","i","f","f","b","o","t"," ","s","n","i","f","f"," ","t","h",
    "i","s">>

TriggerFixLast ==
  <<"@","s","n","i","f","f","b","o","t"," ","f","i","x"," ","l","a","s","t">>

MarkReview ==
  <<
    "S","n","i","f","f","B","o","t"," ","C","o","d","e"," ","R","e","v","i",
    "e","w">>

MarkReReview ==
  <<
    "S","n","i","f","f","B","o","t"," ","C","o","d","e"," ","R","e","-","R",
    "e","v","i","e","w">>

\* the heading of agent.py 185
TitleReview == <<"C","o","d","e"," ","R","e","v","i","e","w">>

\* the heading of agent.py 272
TitleFixLast ==
  <<
    "C","o","d","e"," ","R","e","-","R","e","v","i","e","w"," ","(","F","i",
    "x"," ","L","a","s","t",")">>

ExplNotConfigured ==
  <<"B","o","t"," ","n","o","t"," ","c","o","n","f","i","g","u","r","e","d">>

ExplRateLimit ==
  <<
    "A","I"," ","r","a","t","e"," ","l","i","m","i","t"," ","r","e","a","c",
    "h","e","d"," ","U+2014"," ","t","r","y"," ","a","g","a","i","n"," ",
    "s","o","o","n">>

ExplServiceErrorHead ==
  <<"A","I"," ","s","e","r","v","i","c","e"," ","e","r","r","o","r"," ","(">>

ExplTimedOut ==
  <<
    "A","I"," ","t","i","m","e","d"," ","o","u","t"," ","U+2014"," ","t",
    "r","y"," ","s","h","o","r","t","e","r"," ","c","o","d","e">>

ExplInvalidJson ==
  <<
    "A","I"," ","r","e","t","u","r","n","e","d"," ","i","n","v","a","l","i",
    "d"," ","J","S","O","N">>

ExplAnalysisFailed ==
  <<"A","I"," ","a","n","a","l","y","s","i","s"," ","f","a","i","l","e","d">>

ExplMaxRetries ==
  <<
    "M","a","x"," ","r","e","t","r","i","e","s"," ","e","x","c","e","e","d",
    "e","d">>

FallbackCommit ==
  <<
    "c","h","o","r","e",":"," ","r","e","t","r","y"," ","a","n","a","l","y",
    "s","i","s">>

MsgNoMessage ==
  <<
    "N","o"," ","m","e","s","s","a","g","e"," ","p","r","o","v","i","d","e",
    "d">>

ErrorHead == <<"*","*","E","r","r","o","r",":","*","*"," ">>

ErrorTail ==
  <<
    "\n","\n","T","y","p","e"," ",BQ,"h","e","l","p",BQ," ","f","o","r"," ",
    "u","s","a","g","e",".">>

MsgNoPrevious ==
  <<
    "N","o"," ","p","r","e","v","i","o","u","s"," ","c","o","d","e"," ","t",
    "o"," ","f","i","x","!"," ","S","e","n","d"," ","s","o","m","e"," ","c",
    "o","d","e"," ","f","i","r","s","t",".">>

MsgCouldNotFind ==
  <<
    "I"," ","c","o","u","l","d","n","'","t"," ","f","i","n","d"," ","a","n",
    "y"," ","p","r","e","v","i","o","u","s"," ","c","o","d","e"," ","t","o",
    " ","f","i","x",".">>

MsgNoCodeInLast ==
  <<
    "N","o"," ","c","o","d","e"," ","f","o","u","n","d"," ","i","n"," ","t",
    "h","e"," ","l","a","s","t"," ","m","e","s","s","a","g","e",".">>

MsgYoureWelcome ==
  <<
    "Y","o","u","'","r","e"," ","w","e","l","c","o","m","e","!"," ","G","o",
    "t"," ","m","o","r","e"," ","c","o","d","e"," ","t","o"," ","s","n","i",
    "f","f","?">>

\* agent.py 335-341
MsgNoCodeDetected ==
  <<
    "*","*","N","o"," ","c","o","d","e"," ","d","e","t","e","c","t","e","d",
    "!","*","*","\n","\n","Y","o","u"," ","s","a","i","d"," ",BQ,"s","n",
    "i","f","f"," ","t","h","i","s",BQ," ","b","u","t"," ","n","o"," ","c",
    "o","d","e"," ","w","a","s"," ","f","o","u","n","d",".","\n","\n","*",
    "*","E","x","a","m","p","l","e",":","*","*","\n",BQ,BQ,BQ,"\n","@","S",
    "n","i","f","f","B","o","t"," ","s","n","i","f","f"," ","t","h","i","s",
    "\n"," "," "," "," ","x"," ","="," ","1"," ","+"," ","\"","h","e","l",
    "l","o","\"","\n",BQ,BQ,BQ>>

MsgDefault ==
  <<
    "S","a","y"," ",BQ,"@","S","n","i","f","f","B","o","t"," ","s","n","i",
    "f","f"," ","t","h","i","s",BQ," ","+"," ","c","o","d","e"," ","t","o",
    " ","a","n","a","l","y","z","e",".">>

\* agent.py 371-389, after .strip()
GreetingText ==
  <<
    "*","*","H","e","l","l","o","!"," ","I","'","m"," ","S","n","i","f","f",
    "B","o","t","*","*"," "," ","\n","Y","o","u","r"," ","A","I","-","p",
    "o","w","e","r","e","d"," ","c","o","d","e"," ","r","e","v","i","e","w",
    "e","r",".","\n","\n","*","*","H","o","w"," ","t","o"," ","u","s","e",
    " ","m","e",":","*","*","\n","1","."," ","P","a","s","t","e"," ","a",
    "n","y"," ","c","o","d","e","\n","2","."," ","S","a","y"," ",BQ,"@","S",
    "n","i","f","f","B","o","t"," ","s","n","i","f","f"," ","t","h","i","s",
    BQ,"\n","3","."," ","I","U+2019","l","l"," ","r","e","t","u","r","n",
    " ","s","e","v","e","r","i","t","y",","," ","f","i","x",","," ","d","i",
    "f","f",","," ","a","n","d"," ","c","o","m","m","i","t"," ","m","e","s",
    "s","a","g","e","\n","\n","*","*","E","x","a","m","p","l","e",":","*",
    "*","\n",BQ,BQ,BQ,"\n","@","S","n","i","f","f","B","o","t"," ","s","n",
    "i","f","f"," ","t","h","i","s","\n"," "," "," "," ","p","r","i","n",
    "t","(","\"","H","e","l","l","o"," ","\""," ","+"," ","4","2",")","\n",
    BQ,BQ,BQ,"\n","\n","E","v","e","r","y"," ","F","r","i","d","a","y"," ",
    "U+2192"," ","*","*","S","m","e","l","l"," ","o","f"," ","t","h","e",
    " ","W","e","e","k","*","*","\n","\n","T","r","y"," ","i","t"," ","n",
    "o","w","!">>

\* agent.py 399-423, after .strip()
HelpText ==
  <<
    "*","*","S","n","i","f","f","B","o","t"," ","H","e","l","p","*","*",
    "\n","\n","*","*","T","r","i","g","g","e","r",":","*","*","\n",BQ,BQ,BQ,
    "\n","@","S","n","i","f","f","B","o","t"," ","s","n","i","f","f"," ",
    "t","h","i","s","\n","[","y","o","u","r"," ","c","o","d","e","]","\n",
    BQ,BQ,BQ,"\n","@","S","n","i","f","f","B","o","t"," ","f","i","x"," ",
    "l","a","s","t","\n","U+2192"," ","R","e","-","a","n","a","l","y","z",
    "e"," ","t","h","e"," ","l","a","s","t"," ","c","o","d","e"," ","y","o",
    "u"," ","s","e","n","t","\n","\n","*","*","C","o","d","e"," ","F","o",
    "r","m","a","t","s"," ","S","u","p","p","o","r","t","e","d",":","*","*",
    "\n","-"," ",BQ,BQ,BQ,"p","y","t","h","o","n","\n",".",".",".","\n",BQ,
    BQ,BQ,"\n","-"," ",BQ,"i","n","l","i","n","e"," ","c","o","d","e",BQ,
    "\n","-"," ","4","-","s","p","a","c","e"," ","i","n","d","e","n","t",
    "\n","-"," ","R","a","w"," ","l","i","n","e","s"," ","w","i","t","h",
    " ",BQ,"d","e","f",BQ,","," ",BQ,"f","u","n","c","t","i","o","n",BQ,",",
    " ","e","t","c",".","\n","\n","*","*","I"," ","r","e","t","u","r","n",
    ":","*","*","\n","-"," ","S","e","v","e","r","i","t","y"," ","(","L",
    "o","w","/","M","e","d","i","u","m","/","H","i","g","h",")","\n","-",
    " ","1","-","s","e","n","t","e","n","c","e"," ","e","x","p","l","a","n",
    "a","t","i","o","n","\n","-"," ","F","i","x","e","d"," ","c","o","d",
    "e"," ","d","i","f","f","\n","-"," ","C","o","n","v","e","n","t","i",
    "o","n","a","l"," ","c","o","m","m","i","t"," ","m","e","s","s","a","g",
    "e","\n","\n","*","*","W","e","e","k","l","y",":","*","*"," ","S","m",
    "e","l","l"," ","o","f"," ","t","h","e"," ","W","e","e","k"," ","(","F",
    "r","i"," ","1","0"," ","A","M"," ","U","T","C",")">>


\* {"Low": ..., "Medium": ..., "High": ...}.get(sev, default) of agent.py 183
SeverityEmoji(sev) ==
  IF sev = Str(TxtLow) THEN <<"U+1F7E2">>
  ELSE IF sev = Str(TxtMedium) THEN <<"U+1F7E1">>
  ELSE IF sev = Str(TxtHigh) THEN <<"U+1F534">>
  ELSE <<"U+1F535">>

(***************************************************************************)
(* models/a2a.py is not part of the sources: the records below hold the    *)
(* fields agent.py passes to its constructors.                             *)
(***************************************************************************)
\* An identifier: None, one supplied by the caller, or the n-th uuid4() drawn.
NoId == [src |-> "None", n |-> 0]
ClientId(n) == [src |-> "client", n |-> n]
Uuid4(n) == [src |-> "uuid4", n |-> n]

MessagePart(kind, text) == [kind |-> kind, text |-> text]

A2AMessage(role, parts, taskId, contextId) ==
  [role |-> role, parts |-> parts, taskId |-> taskId, contextId |-> contextId]

Artifact(name, parts) == [name |-> name, parts |-> parts]

TaskStatus(state, message) == [state |-> state, message |-> message]

TaskResult(id, contextId, status, artifacts, history, kind) ==
  [id |-> id, contextId |-> contextId, status |-> status,
   artifacts |-> artifacts, history |-> history, kind |-> kind]

\* What TaskResult holds when the builders of agent.py 392-447 pass neither
\* artifacts nor kind.
DefaultArtifacts == <<>>
DefaultKind == "task"

(***************************************************************************)
(* agent.py: the texts of a message and the intent predicates.            *)
(***************************************************************************)
\* [p.text or "" for p in parts if p.kind == "text"]
RECURSIVE TextsOf(_)
TextsOf(parts) ==
  IF parts = <<>> THEN <<>>
  ELSE (IF Head(parts).kind = "text" THEN <<Head(parts).text>> ELSE <<>>)
         \o TextsOf(Tail(parts))

\* " ".join(p.text or "" for p in msg.parts if p.kind == "text")
FullText(msg) == Join(<<SP>>, TextsOf(msg.parts))

Greetings ==
  { <<"h","i">>, <<"h","e","l","l","o">>, <<"h","e","y">>, <<"y","o">>,
    <<"s","u","p">>, <<"m","o","r","n","i","n","g">>,
    <<"e","v","e","n","i","n","g">> }

\* A faulty test: a text that holds a help token is no greeting.
IsGreetingUnlessHelp(text) ==
  /\ ContainsAny(text, Greetings)
  /\ Contains(text, KwMention)
  /\ ~Contains(text, KwSniffThis)
  /\ ~Contains(text, KwFixLast)
  /\ ~ContainsAny(text, {<<"h","e","l","p">>, <<"?">>})

_is_greeting(text) ==
  /\ ContainsAny(text, Greetings)
  /\ Contains(text, KwMention)
  /\ ~Contains(text, KwSniffThis)
  /\ ~Contains(text, KwFixLast)

HelpCommands ==
  { <<"h","e","l","p">>, <<"?">>, <<"h","o","w">>, <<"w","h","a","t">>,
    <<"u","s","a","g","e">>, <<"c","o","m","m","a","n","d","s">> }

\* A faulty test: a text that holds the review trigger is no help command.
IsHelpUnlessTrigger(text) ==
  ContainsAny(text, HelpCommands) /\ ~Contains(text, TriggerSniffThis)

_is_help_command(text) == ContainsAny(text, HelpCommands)

(***************************************************************************)
(* agent.py: the response builders.                                        *)
(***************************************************************************)
AgentMessage(text, task_id, context_id) ==
  A2AMessage("agent", <<MessagePart("text", text)>>, task_id, context_id)

_build_greeting_result(task_id, context_id, history) ==
  LET msg == AgentMessage(GreetingText, task_id, context_id)
  IN  TaskResult(task_id, context_id, TaskStatus("input-required", msg),
                 DefaultArtifacts, Append(history, msg), DefaultKind)

_build_help_result(task_id, context_id, history) ==
  LET msg == AgentMessage(HelpText, task_id, context_id)
  IN  TaskResult(task_id, context_id, TaskStatus("input-required", msg),
                 DefaultArtifacts, Append(history, msg), DefaultKind)

\* A faulty builder: the message is attached to the status and not appended
\* to the history.
BuildFallbackStatusOnly(text, task_id, context_id, history) ==
  LET msg == AgentMessage(text, task_id, NoId)
  IN  TaskResult(task_id, context_id, TaskStatus("input-required", msg),
                 DefaultArtifacts, history, DefaultKind)

_build_fallback_result(text, task_id, context_id, history) ==
  LET msg == AgentMessage(text, task_id, NoId)
  IN  TaskResult(task_id, context_id, TaskStatus("input-required", msg),
                 DefaultArtifacts, Append(history, msg), DefaultKind)

\* A faulty builder: the error message is attached to the status and not
\* appended to the history.
BuildErrorStatusOnly(error_msg, task_id, context_id, history) ==
  LET msg == AgentMessage(ErrorHead \o error_msg \o ErrorTail, task_id, NoId)
  IN  TaskResult(task_id, context_id, TaskStatus("failed", msg),
                 DefaultArtifacts, history, DefaultKind)

_build_error_result(error_msg, task_id, context_id, history) ==
  LET msg == AgentMessage(ErrorHead \o error_msg \o ErrorTail, task_id, NoId)
  IN  TaskResult(task_id, context_id, TaskStatus("failed", msg),
                 DefaultArtifacts, Append(history, msg), DefaultKind)


(***************************************************************************)
(* agent.py: the AI call.  What the HTTP request of _analyze_with_groq     *)
(* ends in is an outcome:                                                  *)
(*   [kind |-> "timeout"]    httpx.TimeoutException                        *)
(*   [kind |-> "error"]      another exception of the request              *)
(*   [kind |-> "response", status, body, content]   a response, where body *)
(*      is "notjson" (resp.json() raises JSONDecodeError), "nochoices" (a  *)
(*      JSON body without choices[0].message.content) or "chat" (a body    *)
(*      whose message content is the text content).                        *)
(* In a content text a serialised JSON document is one element, its name;  *)
(* Documents gives the value json.loads returns for it.                    *)
(***************************************************************************)
DocFixedCode == Str(<<"x","=","2">>)

Documents ==
  [ DocGood |->
      Dict([severity |-> Str(TxtHigh),
            explanation |-> Str(<<"T","y","p","e"," ","e","r","r","o","r">>),
            fixed_code |-> DocFixedCode,
            commit_message |-> Str(<<"f","i","x",":"," ","t","y","p","e","s">>)]),
    DocRateLimit |->
      Dict([severity |-> Str(TxtMedium),
            explanation |-> Str(<<"A","d","d"," ","a"," ","R","a","t","e"," ","L","i","m","i","t">>),
            fixed_code |-> DocFixedCode,
            commit_message |-> Str(<<"f","e","a","t",":"," ","l","i","m","i","t">>)]),
    DocCritical |->
      Dict([severity |-> Str(<<"C","r","i","t","i","c","a","l">>),
            explanation |-> Str(<<"T","y","p","e"," ","e","r","r","o","r">>),
            fixed_code |-> DocFixedCode,
            commit_message |-> Str(<<"f","i","x",":"," ","t","y","p","e","s">>)]),
    DocNoSeverity |->
      Dict([explanation |-> Str(<<"T","y","p","e"," ","e","r","r","o","r">>),
            fixed_code |-> DocFixedCode,
            commit_message |-> Str(<<"f","i","x",":"," ","t","y","p","e","s">>)]),
    DocNoCommit |->
      Dict([severity |-> Str(TxtLow),
            explanation |-> Str(<<"L","o","o","k","s"," ","f","i","n","e">>),
            fixed_code |-> DocFixedCode]),
    DocList |-> List(<<>>) ]

\* json.loads(text): the value of the one document the text consists of.
json_loads(text) ==
  IF Len(Strip(text)) = 1 /\ Strip(text)[1] \in DOMAIN Documents
    THEN Return(Documents[Strip(text)[1]])
    ELSE Raise("JSONDecodeError")

\* text.split(sep, 1)[1] and text.split(sep, 1)[0], sep occurring in text
AfterFirst(text, sep) ==
  Slice(text, Find(text, sep, 1) + Len(sep), Len(text))

BeforeFirst(text, sep) ==
  IF Find(text, sep, 1) = 0 THEN text
  ELSE Slice(text, 1, Find(text, sep, 1) - 1)

FenceJson == Fence \o <<"j","s","o","n">>

_extract_json(text) ==
  IF Contains(text, FenceJson)
    THEN Strip(BeforeFirst(AfterFirst(text, FenceJson), Fence))
  ELSE IF Contains(text, Fence)
    THEN Strip(BeforeFirst(AfterFirst(text, Fence), Fence))
  ELSE Strip(text)

_fallback_result(explanation, original_code) ==
  Dict([severity |-> Str(TxtMedium),
        explanation |-> Str(explanation),
        fixed_code |-> Str(original_code),
        commit_message |-> Str(FallbackCommit),
        diff |-> Str(create_diff(Str(original_code), Str(original_code)).value)])

\* agent.py 84-86 and 90-91: the parsed document, or the fallback for text
\* that is no JSON.
ParsedResult(parsed, code) ==
  IF parsed.raised THEN _fallback_result(ExplInvalidJson, code)
  ELSE parsed.value

\* A faulty _analyze_with_groq: the handler of httpx.TimeoutException is
\* missing, so a timeout falls to the generic handler of agent.py 92-94.
GroqResultWithoutTimeoutHandler(o, code) ==
  IF o.kind \in {"timeout", "error"} THEN _fallback_result(ExplAnalysisFailed, code)
  ELSE IF o.status = 429 THEN _fallback_result(ExplRateLimit, code)
  ELSE IF o.status # 200
    THEN _fallback_result(ExplServiceErrorHead \o NatStr(o.status) \o <<")">>,
                          code)
  ELSE IF o.body = "notjson" THEN _fallback_result(ExplInvalidJson, code)
  ELSE IF o.body = "nochoices" THEN _fallback_result(ExplAnalysisFailed, code)
  ELSE ParsedResult(json_loads(_extract_json(Strip(o.content))), code)

\* What _analyze_with_groq returns (agent.py 76-94) when its request ended in
\* outcome o.  Every exception is caught, so it always returns.
GroqResult(o, code) ==
  IF o.kind = "timeout" THEN _fallback_result(ExplTimedOut, code)
  ELSE IF o.kind = "error" THEN _fallback_result(ExplAnalysisFailed, code)
  ELSE IF o.status = 429 THEN _fallback_result(ExplRateLimit, code)
  ELSE IF o.status # 200
    THEN _fallback_result(ExplServiceErrorHead \o NatStr(o.status) \o <<")">>,
                          code)
  ELSE IF o.body = "notjson" THEN _fallback_result(ExplInvalidJson, code)
  ELSE IF o.body = "nochoices" THEN _fallback_result(ExplAnalysisFailed, code)
  ELSE ParsedResult(json_loads(_extract_json(Strip(o.content))), code)

\* The test of agent.py 103 on the result of one attempt: Return(TRUE) when
\* the result is returned, Return(FALSE) when the attempt is retried, or the
\* exception that reading the result raises.
RetryTest(analysis) ==
  IF ~IsDict(analysis) THEN Raise("TypeError")
  ELSE IF "severity" \notin DOMAIN analysis.fields THEN Raise("KeyError")
  ELSE IF analysis.fields.severity # Str(TxtMedium) THEN Return(TRUE)
  ELSE IF "explanation" \notin DOMAIN analysis.fields THEN Raise("KeyError")
  ELSE IF ~IsStr(analysis.fields.explanation) THEN Raise("AttributeError")
  ELSE Return(~Contains(Lower(analysis.fields.explanation.s), TxtRateLimit))

\* max_retries of _analyze_with_retry
max_retries == 3

\* 2 ** attempt, the whole seconds of the wait of agent.py 106
RECURSIVE Pow2(_)
Pow2(n) == IF n = 0 THEN 1 ELSE 2 * Pow2(n - 1)

(***************************************************************************)
(* agent.py: process_messages.                                             *)
(***************************************************************************)
\* _CONVERSATION_MEMORY.get(context_id, [])
MemGet(mem, context_id) ==
  IF context_id \in DOMAIN mem THEN mem[context_id] ELSE <<>>

\* A faulty write: every stored conversation is replaced.
MemPutEverywhere(mem, context_id, messages) ==
  [k \in DOMAIN mem \cup {context_id} |-> messages]

\* A faulty write: the messages are added to what is stored.
MemPutMerging(mem, context_id, messages) ==
  [k \in DOMAIN mem \cup {context_id} |->
     IF k = context_id THEN MemGet(mem, context_id) \o messages ELSE mem[k]]

\* _CONVERSATION_MEMORY[context_id] = messages
MemPut(mem, context_id, messages) ==
  [k \in DOMAIN mem \cup {context_id} |->
     IF k = context_id THEN messages ELSE mem[k]]

\* A faulty slice: the whole sequence.
WholeSeq(seq, n) == seq

\* seq[-n:]
LastN(seq, n) == Slice(seq, Max(1, Len(seq) - n + 1), Len(seq))

\* str(v) inside an f-string
PyStr(v) ==
  CASE v.type = "str" -> v.s
    [] v.type = "NoneType" -> <<"N","o","n","e">>
    [] v.type = "int" -> NatStr(v.n)

\* The loop of agent.py 241-247: the index in messages of the latest message
\* before the last one that is a user's and holds code, 0 when there is none.
LastUserCodeIndex(messages) ==
  MaxOf({i \in 1..(Len(messages) - 1) :
           /\ messages[i].role = "user"
           /\ Strip(extract_code(FullText(messages[i])).code) # <<>>})

\* A faulty loop: no message is taken for a review.
FollowUpNever(recent_memory) == FALSE

\* The loop of agent.py 319-329 over recent_memory.
FollowUpFound(recent_memory) ==
  \E i \in 1..Len(recent_memory) :
    /\ recent_memory[i].role = "agent"
    /\ \/ Contains(FullText(recent_memory[i]), MarkReview)
       \/ Contains(FullText(recent_memory[i]), MarkReReview)

\* A faulty load step: line 146 writes the incoming batch to the store also
\* when it is empty.
LoadStepStoringEmpty(messages_in, context_id_in, task_id_in, mem, u) ==
  [context_id |-> IF context_id_in # NoId THEN context_id_in ELSE Uuid4(u + 1),
   task_id |-> IF task_id_in # NoId THEN task_id_in
               ELSE Uuid4((IF context_id_in # NoId THEN u ELSE u + 1) + 1),
   uuids |-> (IF context_id_in # NoId THEN u ELSE u + 1)
               + (IF task_id_in # NoId THEN 0 ELSE 1),
   messages |-> messages_in,
   memory |-> MemPut(mem, IF context_id_in # NoId THEN context_id_in
                          ELSE Uuid4(u + 1), messages_in)]

\* A faulty load step: line 146 is left out, so that the store keeps what
\* it held under the context id.
LoadStepKeepingStored(messages_in, context_id_in, task_id_in, mem, u) ==
  [context_id |-> IF context_id_in # NoId THEN context_id_in ELSE Uuid4(u + 1),
   task_id |-> IF task_id_in # NoId THEN task_id_in
               ELSE Uuid4((IF context_id_in # NoId THEN u ELSE u + 1) + 1),
   uuids |-> (IF context_id_in # NoId THEN u ELSE u + 1)
               + (IF task_id_in # NoId THEN 0 ELSE 1),
   messages |-> IF messages_in = <<>>
                  THEN MemGet(mem, IF context_id_in # NoId THEN context_id_in
                                   ELSE Uuid4(u + 1))
                  ELSE messages_in,
   memory |-> mem]

\* A faulty load step: line 145 is left out, so that an empty batch is
\* processed as it came, whatever is stored under the context id.
LoadStepIgnoringStored(messages_in, context_id_in, task_id_in, mem, u) ==
  [context_id |-> IF context_id_in # NoId THEN context_id_in ELSE Uuid4(u + 1),
   task_id |-> IF task_id_in # NoId THEN task_id_in
               ELSE Uuid4((IF context_id_in # NoId THEN u ELSE u + 1) + 1),
   uuids |-> (IF context_id_in # NoId THEN u ELSE u + 1)
               + (IF task_id_in # NoId THEN 0 ELSE 1),
   messages |-> messages_in,
   memory |-> IF messages_in = <<>> THEN mem
              ELSE MemPut(mem, IF context_id_in # NoId THEN context_id_in
                               ELSE Uuid4(u + 1), messages_in)]

\* agent.py 141-150: the identifiers, the processed history and the store
\* after the load step.  u counts the uuid4() calls made so far.
LoadStep(messages_in, context_id_in, task_id_in, mem, u) ==
  LET context_id == IF context_id_in # NoId THEN context_id_in ELSE Uuid4(u + 1)
      u1 == IF context_id_in # NoId THEN u ELSE u + 1
      task_id == IF task_id_in # NoId THEN task_id_in ELSE Uuid4(u1 + 1)
      u2 == IF task_id_in # NoId THEN u1 ELSE u1 + 1
  IN  [context_id |-> context_id,
       task_id |-> task_id,
       uuids |-> u2,
       messages |-> IF messages_in = <<>> THEN MemGet(mem, context_id)
                    ELSE messages_in,
       memory |-> IF messages_in = <<>> THEN mem
                  ELSE MemPut(mem, context_id, messages_in)]

Answer(result) ==
  [kind |-> "result", result |-> result, code |-> <<>>, lang |-> <<>>,
   title |-> <<>>]

Analyze(code, lang, title) ==
  [kind |-> "analyze", result |-> None, code |-> code, lang |-> lang,
   title |-> title]

Fallback(e, text) ==
  Answer(_build_fallback_result(text, e.task_id, e.context_id, e.messages))

\* agent.py 256-263: the code of the message found by the loop.
FixLastCode(e, y) ==
  IF Strip(y.code) = <<>> THEN Fallback(e, MsgNoCodeInLast)
  ELSE Analyze(y.code, y.lang, TitleFixLast)

\* agent.py 249-254: idx is where the loop found a user's message with code.
FixLastAt(e, idx) ==
  IF idx = 0 THEN Fallback(e, MsgCouldNotFind)
  ELSE FixLastCode(e, extract_code(FullText(e.messages[idx])))

\* A faulty fix-last rule: the test of line 233 on the length is missing.
FixLastWithoutLengthTest(e) ==
  FixLastAt(e, LastUserCodeIndex(e.messages))

\* agent.py 231-263
FixLast(e) ==
  IF Len(e.messages) < 2 THEN Fallback(e, MsgNoPrevious)
  ELSE FixLastAt(e, LastUserCodeIndex(e.messages))

\* agent.py 166-347 for the lowered text of the latest message and the code
\* x extracted from it.
DecideOn(e, lower_text, x) ==
  IF _is_greeting(lower_text)
    THEN Answer(_build_greeting_result(e.task_id, e.context_id, e.messages))
  ELSE IF _is_help_command(lower_text)
    THEN Answer(_build_help_result(e.task_id, e.context_id, e.messages))
  ELSE IF Contains(lower_text, TriggerSniffThis) /\ Strip(x.code) # <<>>
    THEN Analyze(x.code, x.lang, TitleReview)
  ELSE IF Contains(lower_text, TriggerFixLast) THEN FixLast(e)
  ELSE IF Len(e.messages) > 1
            /\ FollowUpFound(LastN(MemGet(e.memory, e.context_id), 5))
    THEN Fallback(e, MsgYoureWelcome)
  ELSE IF Contains(lower_text, TriggerSniffThis) /\ Strip(x.code) = <<>>
    THEN Fallback(e, MsgNoCodeDetected)
  ELSE Fallback(e, MsgDefault)

\* agent.py 156-163
DecideText(e, full_text) ==
  DecideOn(e, Strip(Lower(full_text)), extract_code(full_text))

\* agent.py 152-350 up to the first await: the TaskResult returned, or the
\* code to review and the heading of the response.  e is the LoadStep.
Decide(e) ==
  IF e.messages = <<>>
    THEN Answer(_build_error_result(MsgNoMessage, e.task_id, e.context_id,
                                    e.messages))
    ELSE DecideText(e, FullText(e.messages[Len(e.messages)]))

\* The f-string of agent.py 184-196 (271-283 for fix last), after .strip().
ResponseText(title, severity, explanation, diff, commit_message) ==
  Strip(<<NL,"*","*","S","n","i","f","f","B","o","t"," ">> \o title
        \o <<"*","*"," ">> \o SeverityEmoji(severity) \o <<" ","*","*">>
        \o PyStr(severity) \o <<"*","*",NL,NL,">"," ">> \o PyStr(explanation)
        \o <<NL,NL>> \o <<"*","*","F","i","x","e","d"," ","C","o","d","e"," ","(","D","i","f","f",")","*","*">>
        \o <<NL,BQ,BQ,BQ,"d","i","f","f",NL>> \o diff \o <<NL,BQ,BQ,BQ,NL,NL>>
        \o <<"*","*","C","o","m","m","i","t"," ","M","e","s","s","a","g","e","*","*"," "," ">>
        \o <<NL,BQ>> \o PyStr(commit_message) \o <<BQ,NL>>)

\* agent.py 198-228 (285-315): the artifacts, the write to the store and the
\* TaskResult.
Completed(messages, context_id, task_id, agent_msg, artifacts) ==
  [stored |-> Append(messages, agent_msg),
   result |-> TaskResult(task_id, context_id,
                         TaskStatus("completed", agent_msg), artifacts,
                         Append(messages, agent_msg), "task")]

\* Faulty artifacts: the commit artifact is missing.
ReviewArtifactsWithoutCommit(a, diff) ==
  << Artifact("review",
       <<MessagePart("text",
           <<"S","e","v","e","r","i","t","y",":"," ">> \o PyStr(a.severity)
             \o <<NL,"E","x","p","l","a","n","a","t","i","o","n",":"," ">>
             \o PyStr(a.explanation))>>),
     Artifact("diff", <<MessagePart("text", diff)>>) >>

ReviewArtifacts(a, diff) ==
  << Artifact("review",
       <<MessagePart("text",
           <<"S","e","v","e","r","i","t","y",":"," ">> \o PyStr(a.severity)
             \o <<NL,"E","x","p","l","a","n","a","t","i","o","n",":"," ">>
             \o PyStr(a.explanation))>>),
     Artifact("diff", <<MessagePart("text", diff)>>),
     Artifact("commit", <<MessagePart("text", PyStr(a.commit_message))>>) >>

\* agent.py 183-228 (270-315): a are the fields of the analysis, diff what
\* create_diff returned or raised.
CompleteWith(messages, context_id, task_id, title, a, diff) ==
  IF diff.raised THEN diff
  ELSE IF ~IsStr(a.severity) /\ a.severity.type \in {"list", "dict"}
    THEN Raise("TypeError")
  ELSE IF "explanation" \notin DOMAIN a \/ "commit_message" \notin DOMAIN a
    THEN Raise("KeyError")
  ELSE Return(Completed(messages, context_id, task_id,
                AgentMessage(ResponseText(title, a.severity, a.explanation,
                                          diff.value, a.commit_message),
                             task_id, context_id),
                ReviewArtifacts(a, diff.value)))

\* analysis.get("fixed_code", code)
FixedCodeOf(a, code) ==
  IF "fixed_code" \in DOMAIN a THEN a.fixed_code ELSE Str(code)

\* agent.py 181-228 (268-315 for fix last): from the analysis the retry
\* wrapper returned to the TaskResult; stored is what line 219 (306) writes
\* to the store under context_id.
Complete(messages, context_id, task_id, code, title, analysis) ==
  CompleteWith(messages, context_id, task_id, title, analysis.fields,
               create_diff(Str(code), FixedCodeOf(analysis.fields, code)))


(***************************************************************************)
(* The state.                                                              *)
(***************************************************************************)
VARIABLES
  groq_api_key,    \* SniffBot.groq_api_key: None until initialize()
  memory,          \* _CONVERSATION_MEMORY: context id -> list of messages
  uuids,           \* the number of uuid4() calls made so far
  started,         \* the number of calls of process_messages made so far
  task,            \* per task: where it is suspended, its locals, its outcome
  request_log,     \* main._request_log: identifier -> list of timestamps
  now,             \* datetime.utcnow(), in ticks of 1/TicksPerSecond second
  requests,        \* the number of HTTP requests received so far
  arrivals,        \* history: the requests that came to is_rate_limited
  scheduler,       \* scheduler.scheduler: running, the jobs added, the jobs
  lifespan         \* main.lifespan: its phase; history: the calls made of
                   \* start_scheduler and of stop_scheduler

vars ==
  <<groq_api_key, memory, uuids, started, task, request_log, now, requests,
    arrivals, scheduler, lifespan>>

\* The tasks that may run on the event loop.
NumTasks == 2
Tasks == 1..NumTasks

\* A task that is not running: pc is where it is ("idle", "groq": awaiting
\* the HTTP response of agent.py 71, "sleep": awaiting asyncio.sleep of
\* agent.py 108, "done": returned or raised).  entry is the function called
\* ("retry": _analyze_with_retry, "dispatch": process_messages, "endpoint":
\* a2a_endpoint), request what a2a_endpoint was called with and response what
\* it answered.  History of the call: batch, the messages argument of
\* process_messages; dispatched, whether a2a_endpoint called process_messages;
\* prior, the store when process_messages was called; calls, the number of
\* calls of _analyze_with_retry; outcomes, what the requests of the calls of
\* _analyze_with_groq ended in; trace, the results of those calls; sleeps,
\* the whole seconds of the waits.
IdleTask ==
  [pc |-> "idle", entry |-> "", request |-> None, response |-> None,
   dispatched |-> FALSE, prior |-> <<>>, messages |-> <<>>,
   context_id |-> NoId, task_id |-> NoId, batch |-> <<>>, code |-> <<>>,
   lang |-> <<>>, title |-> <<>>, attempt |-> 0, calls |-> 0, out |-> None,
   outcomes |-> <<>>, trace |-> <<>>, sleeps |-> <<>>]

Step(ts, mem) == [ts |-> ts, mem |-> mem]

\* jsonrpc_error(req_id, code, message): the JSONResponse (main.py 99-109).
jsonrpc_error(req_id, code, message) ==
  [status |-> IF -32768 <= code /\ code <= -32600 THEN 400 ELSE 500,
   kind |-> "error", id |-> req_id, code |-> code, message |-> message,
   result |-> None, retry_after |-> 0]

\* main.py 234-236: the JSON-RPC response holding the TaskResult.
jsonrpc_result(req_id, result) ==
  [status |-> 200, kind |-> "result", id |-> req_id, code |-> 0,
   message |-> "", result |-> result, retry_after |-> 0]

\* main.py 224-236: what a2a_endpoint answers when process_messages returned
\* or raised r.
AgentResponse(req_id, r) ==
  IF r.raised THEN jsonrpc_error(req_id, -32000, "Server error")
  ELSE jsonrpc_result(req_id, r.value)

\* The called function returns or raises r; a2a_endpoint then answers.
Returned(ts, r) ==
  [ts EXCEPT !.pc = "done", !.out = r,
             !.response = IF ts.entry = "endpoint"
                            THEN AgentResponse(ts.request.id, r) ELSE @]

\* A faulty end of process_messages: the write of line 219 (306) is missing.
FinishedWithoutWrite(ts, c, mem) ==
  IF c.raised THEN Step(Returned(ts, c), mem)
  ELSE Step(Returned(ts, Return(c.value.result)), mem)

\* process_messages ends with c, what lines 181-228 (268-315) returned or
\* raised.
Finished(ts, c, mem) ==
  IF c.raised THEN Step(Returned(ts, c), mem)
  ELSE Step(Returned(ts, Return(c.value.result)),
            MemPut(mem, ts.context_id, c.value.stored))

\* _analyze_with_retry returns or raises r.  process_messages goes on to
\* line 181 (268) without suspending.
Finish(ts, r, mem) ==
  IF ts.entry = "retry" \/ r.raised THEN Step(Returned(ts, r), mem)
  ELSE Finished(ts, Complete(ts.messages, ts.context_id, ts.task_id, ts.code,
                             ts.title, r.value), mem)

\* agent.py 103-108: test is what the test of line 103 on analysis gave.
AfterTest(ts, analysis, test, mem) ==
  IF test.raised THEN Finish(ts, Raise(test.exc), mem)
  ELSE IF test.value THEN Finish(ts, Return(analysis), mem)
  ELSE Step([ts EXCEPT !.pc = "sleep", !.sleeps = Append(@, Pow2(ts.attempt))],
            mem)

\* agent.py 101-108 after the attempt, whose request ended in o, returned
\* analysis.
AfterAttempt(ts, o, analysis, mem) ==
  AfterTest([ts EXCEPT !.outcomes = Append(@, o), !.trace = Append(@, analysis)],
            analysis, RetryTest(analysis), mem)

\* No request is made: the key is not configured (agent.py 38-39).
NoRequest == [kind |-> "unconfigured"]

\* A faulty attempt: the test of agent.py 38 on the key is missing and the
\* request is made.
AttemptWithoutKeyTest(ts, mem, key) ==
  Step([ts EXCEPT !.pc = "groq"], mem)

\* agent.py 101: one call of _analyze_with_groq, up to its first await.
Attempt(ts, mem, key) ==
  IF ~Truthy(key)
    THEN AfterAttempt(ts, NoRequest,
                      _fallback_result(ExplNotConfigured, ts.code), mem)
    ELSE Step([ts EXCEPT !.pc = "groq"], mem)

\* agent.py 99-110 after the sleep: the next attempt, or line 110 after the
\* last one.
NextAttempt(ts, mem, key) ==
  IF ts.attempt < max_retries THEN Attempt(ts, mem, key)
  ELSE Finish(ts, Return(_fallback_result(ExplMaxRetries, ts.code)), mem)

\* process_messages from the decision d to its return or its first await.
Proceed(ts, e, d, key) ==
  IF d.kind = "result" THEN Step(Returned(ts, Return(d.result)), e.memory)
  ELSE Attempt([ts EXCEPT !.calls = @ + 1], e.memory, key)

\* process_messages(messages, context_id, task_id) called by the task with
\* locals ts, e being its load step and d its decision.
Called(ts, messages, mem, e, d, key) ==
  Proceed([ts EXCEPT !.batch = messages, !.prior = mem,
                     !.messages = e.messages, !.context_id = e.context_id,
                     !.task_id = e.task_id, !.code = d.code, !.lang = d.lang,
                     !.title = d.title],
          e, d, key)

Loaded(ts, messages, mem, e, key) ==
  [run |-> Called(ts, messages, mem, e, Decide(e), key), uuids |-> e.uuids]

\* process_messages up to its return or its first await: the task, the store
\* and the uuid4() calls made.
process_messages(ts, messages, context_id, task_id, mem, u, key) ==
  Loaded(ts, messages, mem, LoadStep(messages, context_id, task_id, mem, u), key)

(***************************************************************************)
(* The inputs.                                                             *)
(***************************************************************************)
ApiKey == Str(<<"g","s","k">>)

TxtHello ==
  <<"h","e","l","l","o"," ","@","s","n","i","f","f","b","o","t">>

TxtSniffFenced ==
  <<
    "@","s","n","i","f","f","b","o","t"," ","s","n","i","f","f"," ","t","h",
    "i","s","\n",BQ,BQ,BQ,"p","y","t","h","o","n","\n","x","=","1","\n",BQ,
    BQ,BQ>>

TxtSniffNoCode ==
  <<
    "@","s","n","i","f","f","b","o","t"," ","s","n","i","f","f"," ","t","h",
    "i","s">>

TxtFixLast ==
  <<"@","s","n","i","f","f","b","o","t"," ","f","i","x"," ","l","a","s","t">>

TxtThanks ==
  <<"t","h","a","n","k","s">>

TxtHelp ==
  <<"h","e","l","p">>

TxtOldReview ==
  <<
    "*","*","S","n","i","f","f","B","o","t"," ","C","o","d","e"," ","R","e",
    "v","i","e","w","*","*"," ","U+1F7E1"," ","*","*","M","e","d","i","u",
    "m","*","*">>

TxtHelloHelp ==
  <<
    "h","e","l","l","o"," ","@","s","n","i","f","f","b","o","t"," ","h","e",
    "l","p">>

TxtHeySniffThis ==
  <<
    "@","s","n","i","f","f","b","o","t"," ","h","e","y"," ","s","n","i","f",
    "f"," ","t","h","i","s">>

TxtHelpSniffFenced ==
  <<
    "h","e","l","p"," ","@","s","n","i","f","f","b","o","t"," ","s","n","i",
    "f","f"," ","t","h","i","s","\n",BQ,BQ,BQ,"p","y","t","h","o","n","\n",
    "x","=","1","\n",BQ,BQ,BQ>>

TxtFixLastQuestion ==
  <<
    "@","s","n","i","f","f","b","o","t"," ","f","i","x"," ","l","a","s","t",
    "?">>

TxtSniffInline ==
  <<
    "@","s","n","i","f","f","b","o","t"," ","s","n","i","f","f"," ","t","h",
    "i","s"," ",BQ,"y","=","2",BQ>>

TxtAgentCode ==
  <<
    "f","i","x","e","d",":","\n",BQ,BQ,BQ,"p","y","t","h","o","n","\n","z",
    "=","3","\n",BQ,BQ,BQ>>

TxtOldReReview ==
  <<
    "*","*","S","n","i","f","f","B","o","t"," ","C","o","d","e"," ","R","e",
    "-","R","e","v","i","e","w"," ","(","F","i","x"," ","L","a","s","t",")",
    "*","*"," ","U+1F7E2"," ","*","*","L","o","w","*","*">>

UserMessage(text) == A2AMessage("user", <<MessagePart("text", text)>>, NoId, NoId)

\* The batches of messages a caller passes to process_messages.
Batches ==
  { <<>>,
    <<UserMessage(TxtHello)>>,
    <<UserMessage(TxtHelp)>>,
    <<UserMessage(TxtSniffFenced)>>,
    <<UserMessage(TxtSniffNoCode)>>,
    <<UserMessage(TxtFixLast)>>,
    <<UserMessage(TxtThanks)>>,
    <<UserMessage(TxtSniffFenced), UserMessage(TxtFixLast)>>,
    <<UserMessage(TxtSniffFenced), AgentMessage(TxtOldReview, NoId, NoId),
      UserMessage(TxtThanks)>> }

\* Batches whose latest message meets several rules of the decision list of
\* process_messages at once, or whose history decides the rule.
RuleBatches ==
  { <<>>,
    <<UserMessage(TxtHelloHelp)>>,
    <<UserMessage(TxtHeySniffThis)>>,
    <<UserMessage(TxtHelpSniffFenced)>>,
    <<UserMessage(TxtFixLastQuestion)>>,
    <<UserMessage(TxtFixLast)>>,
    <<UserMessage(TxtSniffNoCode)>>,
    <<UserMessage(TxtThanks), UserMessage(TxtFixLast)>>,
    <<UserMessage(TxtSniffFenced), UserMessage(TxtSniffInline),
      AgentMessage(TxtAgentCode, NoId, NoId), UserMessage(TxtThanks),
      UserMessage(TxtFixLast)>>,
    <<UserMessage(TxtSniffFenced), AgentMessage(TxtOldReview, NoId, NoId),
      UserMessage(TxtThanks)>>,
    <<UserMessage(TxtThanks), AgentMessage(TxtOldReReview, NoId, NoId),
      UserMessage(TxtThanks)>>,
    <<UserMessage(TxtOldReview), UserMessage(TxtThanks)>>,
    <<UserMessage(TxtSniffFenced), AgentMessage(TxtOldReview, NoId, NoId),
      UserMessage(TxtThanks), UserMessage(TxtThanks), UserMessage(TxtThanks),
      UserMessage(TxtThanks), UserMessage(TxtThanks)>>,
    <<UserMessage(TxtSniffFenced), AgentMessage(TxtOldReview, NoId, NoId),
      UserMessage(TxtSniffNoCode)>> }

\* The batches of the dispatches that run side by side.
ConcurrentBatches ==
  { <<>>,
    <<UserMessage(TxtSniffFenced)>>,
    <<UserMessage(TxtSniffFenced), AgentMessage(TxtOldReview, NoId, NoId),
      UserMessage(TxtThanks)>>,
    <<UserMessage(TxtThanks), UserMessage(TxtThanks)>> }

\* The context ids a caller passes: none, or one of two.
ContextIds == {NoId, ClientId(1), ClientId(2)}

\* The task ids a caller passes.
TaskIds == {NoId, ClientId(7)}

\* The code a direct caller of the retry wrapper passes.
Codes == { <<"x","=","1">>, <<"x","=","2">>, <<"d","e","f"," ","f","(",")",":">> }

Chat(status, body, content) ==
  [kind |-> "response", status |-> status, body |-> body, content |-> content]

\* What the request to the AI service can end in.
Outcomes ==
  { [kind |-> "timeout"],
    [kind |-> "error"],
    Chat(429, "chat", <<>>),
    Chat(500, "chat", <<>>),
    Chat(200, "notjson", <<>>),
    Chat(200, "nochoices", <<>>),
    Chat(200, "chat", <<"S","u","r","e","!">>),
    Chat(200, "chat", <<"DocGood">>),
    Chat(200, "chat", FenceJson \o <<NL, "DocGood", NL>> \o Fence),
    Chat(200, "chat", <<"DocRateLimit">>),
    Chat(200, "chat", <<"DocCritical">>),
    Chat(200, "chat", <<"DocNoSeverity">>),
    Chat(200, "chat", <<"DocNoCommit">>),
    Chat(200, "chat", <<"DocList">>) }

\* The outcomes of the AI request in the runs of several turns or requests.
FewOutcomes ==
  { Chat(429, "chat", <<>>),
    Chat(200, "chat", <<"DocGood">>),
    Chat(200, "chat", <<"DocList">>) }

\* The outcomes of the AI request where tasks run side by side: a review or
\* an error of the service, neither of which is retried.
ConcurrentOutcomes ==
  { Chat(500, "chat", <<>>),
    Chat(200, "chat", <<"DocGood">>) }

\* The batches of the dispatches that share a context id: two with code to
\* review, and the empty one.
SameContextBatches ==
  { <<>>,
    <<UserMessage(TxtSniffFenced)>>,
    <<UserMessage(TxtSniffInline)>> }

\* The outcomes of their AI requests: rate limited, or a review.
SameContextOutcomes ==
  { Chat(429, "chat", <<>>),
    Chat(200, "chat", <<"DocGood">>) }

(***************************************************************************)
(* main.py: the rate limiter and the endpoint.  A request is what arrives: *)
(* body is "notjson" (request.json() raises), "notobject" (a JSON value    *)
(* that is no object) or "object"; of an object, jsonrpc is the value of   *)
(* its "jsonrpc" member, has_id and has_method whether it has those        *)
(* members, params whether its "params" member is "missing", "invalid"     *)
(* (MessageParams or ExecuteParams refuses it) or "valid", and then        *)
(* messages, contextId and taskId are what it holds (for message/send the  *)
(* one message, whose contextId counts).  The headers are None when        *)
(* absent.  The "data" member of an error is left out.                     *)
(***************************************************************************)
\* RATE_LIMIT_PER_MINUTE: int(os.getenv("RATE_LIMIT_PER_MINUTE", "10")), here
\* a deployment that sets it to 2.
RATE_LIMIT_PER_MINUTE == 2

\* RATE_WINDOW, in seconds
RATE_WINDOW == 60

\* The resolution of the clock: datetime.utcnow() is read in ticks, of which
\* a second holds TicksPerSecond, so that two requests can be less than a
\* second apart.
TicksPerSecond == 2

\* timedelta.total_seconds() of a span of ticks, truncated by int()
WholeSeconds(ticks) == ticks \div TicksPerSecond

TxtUnknown == <<"u","n","k","n","o","w","n">>

\* a or b
PyOr(a, b) == IF Truthy(a) THEN a ELSE b

\* headers.get(name, "unknown")
HeaderOrUnknown(h) == IF h = None THEN Str(TxtUnknown) ELSE h

\* main.py 176-179
Identifier(req) ==
  PyOr(req.user_id,
       PyOr(HeaderOrUnknown(req.channel_id), HeaderOrUnknown(req.forwarded)))

\* _request_log[identifier] of the defaultdict(list)
LogGet(log, identifier) ==
  IF identifier \in DOMAIN log THEN log[identifier] ELSE <<>>

LogPut(log, identifier, timestamps) ==
  [k \in DOMAIN log \cup {identifier} |->
     IF k = identifier THEN timestamps ELSE log[k]]

\* [t for t in timestamps if now - t < RATE_WINDOW]
Unexpired(timestamps, t_now) ==
  SelectSeq(timestamps, LAMBDA t : t_now - t < RATE_WINDOW * TicksPerSecond)

\* main.py 50-59 with line 54 reading ">" where it reads ">=".
RateDecisionOffByOne(log, identifier, t_now, valid) ==
  IF Len(valid) > RATE_LIMIT_PER_MINUTE
    THEN [limited |-> TRUE,
          reset_in |->
            WholeSeconds(RATE_WINDOW * TicksPerSecond - (t_now - valid[1])) + 1,
          log |-> LogPut(log, identifier, valid)]
    ELSE [limited |-> FALSE, reset_in |-> 0,
          log |-> LogPut(log, identifier, Append(valid, t_now))]

\* main.py 50-59 with line 55 leaving out the "+ 1".
RateDecisionRoundedDown(log, identifier, t_now, valid) ==
  IF Len(valid) >= RATE_LIMIT_PER_MINUTE
    THEN [limited |-> TRUE,
          reset_in |->
            WholeSeconds(RATE_WINDOW * TicksPerSecond - (t_now - valid[1])),
          log |-> LogPut(log, identifier, valid)]
    ELSE [limited |-> FALSE, reset_in |-> 0,
          log |-> LogPut(log, identifier, Append(valid, t_now))]

\* main.py 50-59 for the unexpired timestamps: reset_in when limited, and the
\* log as the call leaves it.
RateDecision(log, identifier, t_now, valid) ==
  IF Len(valid) >= RATE_LIMIT_PER_MINUTE
    THEN [limited |-> TRUE,
          reset_in |->
            WholeSeconds(RATE_WINDOW * TicksPerSecond - (t_now - valid[1])) + 1,
          log |-> LogPut(log, identifier, valid)]
    ELSE [limited |-> FALSE, reset_in |-> 0,
          log |-> LogPut(log, identifier, Append(valid, t_now))]

\* is_rate_limited(identifier) at time t_now
is_rate_limited(log, identifier, t_now) ==
  RateDecision(log, identifier, t_now, Unexpired(LogGet(log, identifier), t_now))

\* main.py 187-199: the 429 response
RateLimitedResponse(req_id, reset_in) ==
  [status |-> 429, kind |-> "error", id |-> req_id, code |-> -32000,
   message |-> "Rate limited", result |-> None, retry_after |-> reset_in]

\* What the server answers when an exception escapes a2a_endpoint.
UnhandledResponse ==
  [status |-> 500, kind |-> "unhandled", id |-> None, code |-> 0,
   message |-> "Internal Server Error", result |-> None, retry_after |-> 0]

\* main.py 211-212 replacing the id of the request by a new one, always.
IdAlwaysNew(id, u) == Uuid4(u + 1)

\* x or str(uuid.uuid4()): the value, and the uuid4() calls made after it
IdOr(id, u) == IF id # NoId THEN id ELSE Uuid4(u + 1)
Used(id, u) == IF id # NoId THEN u ELSE u + 1

\* a2a_endpoint returns response without calling process_messages.
Answered(ts, response, log, u, mem) ==
  [ts |-> [ts EXCEPT !.pc = "done", !.response = response], mem |-> mem,
   uuids |-> u, log |-> log]

\* main.py 224-228: process_messages is called; p is how far it ran.
Delegated(p, log) ==
  [ts |-> p.run.ts, mem |-> p.run.mem, uuids |-> p.uuids, log |-> log]

\* main.py 184-236 with step 6 answering before step 5: a request whose
\* params are refused is answered -32602 also when it is over quota.
AdmissionParamsFirst(ts, req, rate, u, mem, key) ==
  IF req.params # "valid"
    THEN Answered(ts, jsonrpc_error(req.id, -32602, "Invalid params"),
                  rate.log, u, mem)
  ELSE IF rate.limited
    THEN Answered(ts, RateLimitedResponse(req.id, rate.reset_in), rate.log, u, mem)
  ELSE IF req.method = "message/send"
    THEN Answered(ts, jsonrpc_error(req.id, -32000, "Server error"), rate.log,
                  Used(req.messages[1].contextId, u), mem)
  ELSE Delegated(
         process_messages([ts EXCEPT !.dispatched = TRUE], req.messages,
                          IdOr(req.contextId, u),
                          IdOr(req.taskId, Used(req.contextId, u)), mem,
                          Used(req.taskId, Used(req.contextId, u)), key),
         rate.log)

\* main.py 184-236.  For message/send lines 204-207 assign params, messages,
\* config and context_id but not task_id, so reading task_id at line 227
\* raises UnboundLocalError before process_messages is called; line 230
\* catches it.
Admission(ts, req, rate, u, mem, key) ==
  IF rate.limited
    THEN Answered(ts, RateLimitedResponse(req.id, rate.reset_in), rate.log, u, mem)
  ELSE IF req.params # "valid"
    THEN Answered(ts, jsonrpc_error(req.id, -32602, "Invalid params"),
                  rate.log, u, mem)
  ELSE IF req.method = "message/send"
    THEN Answered(ts, jsonrpc_error(req.id, -32000, "Server error"), rate.log,
                  Used(req.messages[1].contextId, u), mem)
  ELSE Delegated(
         process_messages([ts EXCEPT !.dispatched = TRUE], req.messages,
                          IdOr(req.contextId, u),
                          IdOr(req.taskId, Used(req.contextId, u)), mem,
                          Used(req.taskId, Used(req.contextId, u)), key),
         rate.log)

\* a2a_endpoint(request) at time t_now, up to its answer or its first await
\* inside process_messages.
a2a_endpoint(ts, req, log, t_now, u, mem, key) ==
  IF req.body = "notjson"
    THEN Answered(ts, jsonrpc_error(None, -32700, "Parse error"), log, u, mem)
  ELSE IF req.body # "object" THEN Answered(ts, UnhandledResponse, log, u, mem)
  ELSE IF req.jsonrpc # "2.0" \/ ~req.has_id \/ ~req.has_method
    THEN Answered(ts, jsonrpc_error(IF req.has_id THEN req.id ELSE None,
                                    -32600, "Invalid Request"), log, u, mem)
  ELSE IF req.method \notin {"message/send", "execute"}
    THEN Answered(ts, jsonrpc_error(req.id, -32601, "Method not found"),
                  log, u, mem)
  ELSE Admission(ts, req, is_rate_limited(log, Identifier(req), t_now), u, mem,
                 key)

\* The requests that arrive.
User1 == Str(<<"u","1">>)
Channel1 == Str(<<"c","1">>)

BaseRequest ==
  [body |-> "object", jsonrpc |-> "2.0", has_id |-> TRUE,
   id |-> Str(<<"r","1">>), has_method |-> TRUE, method |-> "message/send",
   params |-> "valid", messages |-> <<UserMessage(TxtHello)>>,
   contextId |-> NoId, taskId |-> NoId, user_id |-> None, channel_id |-> None,
   forwarded |-> None]

ExecuteRequest == [BaseRequest EXCEPT !.method = "execute"]

Requests ==
  { [BaseRequest EXCEPT !.body = "notjson"],
    [BaseRequest EXCEPT !.body = "notobject"],
    [BaseRequest EXCEPT !.jsonrpc = "1.0"],
    [BaseRequest EXCEPT !.has_id = FALSE],
    [BaseRequest EXCEPT !.method = "tasks/get"],
    BaseRequest,
    [BaseRequest EXCEPT !.user_id = User1,
                        !.messages = <<UserMessage(TxtSniffFenced)>>],
    [BaseRequest EXCEPT !.params = "invalid"],
    [ExecuteRequest EXCEPT !.user_id = User1, !.contextId = ClientId(1),
                           !.taskId = ClientId(7),
                           !.messages = <<UserMessage(TxtSniffFenced)>>],
    [ExecuteRequest EXCEPT !.channel_id = Channel1, !.messages = <<>>],
    [ExecuteRequest EXCEPT !.user_id = User1],
    [ExecuteRequest EXCEPT !.params = "missing"] }

\* The time that passes between two events: 30 or 60 seconds, in ticks.
Delays == {30 * TicksPerSecond, 60 * TicksPerSecond}

\* Bounds on the calls of process_messages, the turns of a conversation, the
\* requests and the clock in one behaviour.
MaxDispatches == 1
MaxTurns == 2
MaxRequests == 3
MaxClock == 60

\* The arguments of create_diff: None, the empty text, texts of one and of
\* several lines, with and without the final newline, and texts whose lines
\* look like the headers of a diff.
TxtEightLines ==
  <<
    "a","=","1",NL,"b","=","2",NL,"c","=","3",NL,"d","=","4",NL,"e","=","5",
    NL,"f","=","6",NL,"g","=","7",NL,"h","=","8">>

DiffInputs ==
  { None,
    Str(<<>>),
    Str(<<NL>>),
    Str(<<"x","=","1">>),
    Str(<<"x","=","1",NL>>),
    Str(<<"x","=","2">>),
    Str(<<"x","=","1",NL,"y","=","2">>),
    Str(<<"x","=","1",NL,NL,"y","=","2",NL>>),
    Str(<<"-","-"," ","x">>),
    Str(<<"@","@"," ","x",NL,"+","+"," ","y">>),
    Str(TxtEightLines),
    Str(SubSeq(TxtEightLines, 1, 15) \o <<"D","=","0">>
          \o SubSeq(TxtEightLines, 16, 31)) }

\* The characters and the greatest length of the short texts given to
\* extract_code.
ExtractAlphabet == {"x", "=", BQ, NL, SP}
MaxTextLen == 3

TxtFencedNoTag == Fence \o <<NL,"x",NL>> \o Fence
TxtFencedEmpty == Fence \o <<NL,NL>> \o Fence
TxtFencedBlank == Fence \o <<"j","s",NL,SP,NL>> \o Fence
TxtIndented == <<"s","e","e",NL,SP,SP,SP,SP,"f","o","o">>
TxtIndentedOnly == <<"s","e","e",NL,TAB>>
TxtProse == <<"n","o","t","h","i","n","g"," ","h","e","r","e">>
\* Texts that more than one step of extract_code matches.
TxtInlineThenFenced == <<BQ,"y",BQ,SP>> \o Fence \o <<NL,"x",NL>> \o Fence
TxtInlineThenIndented == <<BQ,"y",BQ,NL,SP,SP,SP,SP,"x","=","1">>
TxtRawThenIndented == <<"a","=","1",NL,SP,SP,SP,SP,"b","=","2">>
TxtEmptyFenceThenInline == Fence \o <<NL,NL>> \o Fence \o <<NL,BQ,"y",BQ>>
TxtBlankInlineThenRaw == <<BQ,SP,BQ,NL,"a","=","1">>

\* The arguments of extract_code: values that are no str, every text of at
\* most MaxTextLen characters of ExtractAlphabet, and texts with a fenced
\* block, inline code, an indented block, code-like lines or none of these.
ExtractInputs ==
  {None, Num(0), Num(7), List(<<>>), List(<<Str(<<"x">>)>>), Dict(<<>>)}
    \cup {Str(s) : s \in UNION {[1..n -> ExtractAlphabet] : n \in 0..MaxTextLen}}
    \cup {Str(s) : s \in {TxtSniffFenced, TxtSniffInline, TxtFencedNoTag,
                          TxtFencedEmpty, TxtFencedBlank, TxtIndented,
                          TxtIndentedOnly, TxtProse, TxtHello, TxtEightLines,
                          TxtInlineThenFenced, TxtInlineThenIndented,
                          TxtRawThenIndented, TxtEmptyFenceThenInline,
                          TxtBlankInlineThenRaw}}

\* The execute requests of a client that names the context and the task, and
\* one that names neither.
ExecuteRequests ==
  { [ExecuteRequest EXCEPT !.user_id = User1, !.contextId = ClientId(1),
                           !.taskId = ClientId(7),
                           !.messages = <<UserMessage(TxtSniffFenced)>>],
    [ExecuteRequest EXCEPT !.user_id = User1, !.contextId = ClientId(1),
                           !.taskId = ClientId(8),
                           !.messages = <<UserMessage(TxtSniffNoCode)>>],
    [ExecuteRequest EXCEPT !.user_id = User1, !.contextId = ClientId(2),
                           !.taskId = ClientId(7), !.messages = <<>>],
    [ExecuteRequest EXCEPT !.user_id = User1] }

\* Bound on the execute requests in one behaviour.
MaxExecutes == 2

\* The requests of two clients that come to the rate limiter: none of them
\* awaits the AI service.
RateRequests ==
  { [ExecuteRequest EXCEPT !.user_id = User1, !.messages = <<>>],
    [ExecuteRequest EXCEPT !.channel_id = Channel1, !.messages = <<>>] }

\* The time between two of these requests, in ticks: one tick less than the
\* window, the window.
RateDelays == {RATE_WINDOW * TicksPerSecond - 1, RATE_WINDOW * TicksPerSecond}

\* The waits the refusals so far asked for, in ticks.
RetryAfters ==
  {arrivals[i].retry_after * TicksPerSecond :
     i \in {k \in 1..Len(arrivals) : arrivals[k].limited}}

\* Requests that differ in their headers only: from two addresses without a
\* user id or a channel id, with a channel id, with a user id and a
\* channel id, and without any of the three headers.
Address1 == Str(<<"1","0",".","0",".","0",".","1">>)
Address2 == Str(<<"1","0",".","0",".","0",".","2">>)

HeaderRequests ==
  { [ExecuteRequest EXCEPT !.forwarded = Address1, !.messages = <<>>],
    [ExecuteRequest EXCEPT !.forwarded = Address2, !.messages = <<>>],
    [ExecuteRequest EXCEPT !.channel_id = Channel1, !.forwarded = Address1,
                           !.messages = <<>>],
    [ExecuteRequest EXCEPT !.user_id = User1, !.channel_id = Channel1,
                           !.forwarded = Address2, !.messages = <<>>],
    [ExecuteRequest EXCEPT !.messages = <<>>] }

MaxHeaderRequests == 3

\* Requests of one client that fail each check of a2a_endpoint in turn, and
\* requests that pass them: a message/send, which fails in step 7, and an
\* execute without messages, which process_messages answers at once.
QuotaRequests ==
  { [BaseRequest EXCEPT !.body = "notjson"],
    [BaseRequest EXCEPT !.jsonrpc = "1.0"],
    [BaseRequest EXCEPT !.method = "tasks/get"],
    [BaseRequest EXCEPT !.params = "invalid"],
    BaseRequest,
    [ExecuteRequest EXCEPT !.contextId = ClientId(1), !.taskId = ClientId(7),
                           !.messages = <<>>] }

MaxQuotaRequests == 4

\* Bounds on the requests and on the clock, in seconds, of the behaviours of
\* the rate limiter.
MaxRateRequests == 5
MaxRateClock == 62

(***************************************************************************)
(* scheduler.py and the lifespan of main.py.  The scheduler is an          *)
(* AsyncIOScheduler of APScheduler with its default job store, modelled by *)
(* its contract:                                                           *)
(* a job added while the scheduler is stopped waits in pending until       *)
(* start() puts it in the store; replace_existing=True puts the job in the *)
(* place of a stored job with its id; shutdown() stops the scheduler, and  *)
(* whether the store keeps its jobs then is left open (kept).  A job is    *)
(* its id.                                                                 *)
(***************************************************************************)
AsyncIOScheduler == [running |-> FALSE, pending |-> <<>>, jobs |-> <<>>]

JobId == "smell_of_the_week"

\* The job store after a job with this id is added with replace_existing.
RECURSIVE Stored(_, _)
Stored(jobs, id) ==
  IF jobs = <<>> THEN <<id>>
  ELSE IF Head(jobs) = id THEN jobs
  ELSE <<Head(jobs)>> \o Stored(Tail(jobs), id)

RECURSIVE StoredAll(_, _)
StoredAll(jobs, ids) ==
  IF ids = <<>> THEN jobs ELSE StoredAll(Stored(jobs, Head(ids)), Tail(ids))

\* A faulty add_job: the job is put in the store at once, beside a stored
\* job with its id.
AddJobBeside(s, id) == [s EXCEPT !.jobs = Append(@, id)]

\* scheduler.add_job(..., id=id, replace_existing=True)
add_job(s, id) ==
  IF s.running THEN [s EXCEPT !.jobs = Stored(@, id)]
  ELSE [s EXCEPT !.pending = Append(@, id)]

\* scheduler.start()
start(s) ==
  [running |-> TRUE, pending |-> <<>>, jobs |-> StoredAll(s.jobs, s.pending)]

\* scheduler.shutdown()
shutdown(s, kept) ==
  [running |-> FALSE, pending |-> <<>>,
   jobs |-> IF kept THEN s.jobs ELSE <<>>]

start_scheduler(s) ==
  IF ~s.running THEN start(add_job(s, JobId)) ELSE s

stop_scheduler(s, kept) ==
  IF s.running THEN shutdown(s, kept) ELSE s

\* The lifespan before startup; phase is then "up" (startup has completed,
\* the application serves), "failed" (startup raised) or "stopped" (the
\* shutdown has run).
NotStarted == [phase |-> "down", starts |-> 0, stops |-> 0]

\* What os.getenv("GROQ_API_KEY") returns.
ApiKeys == {None, Str(<<>>), ApiKey}

\* The greatest number of calls of start_scheduler, and of stop_scheduler.
MaxSchedulerCalls == 3

(***************************************************************************)
(* The operations.                                                         *)
(***************************************************************************)
Init ==
  /\ groq_api_key = None
  /\ memory = <<>>
  /\ uuids = 0
  /\ started = 0
  /\ task = [t \in Tasks |-> IdleTask]
  /\ request_log = <<>>
  /\ now = 0
  /\ requests = 0
  /\ arrivals = <<>>
  /\ scheduler = AsyncIOScheduler
  /\ lifespan = NotStarted

\* The state in which task 1 is about to call the function named entry with
\* the arguments args.
InitCall(entry, args) ==
  /\ groq_api_key = None
  /\ memory = <<>>
  /\ uuids = 0
  /\ started = 0
  /\ task = [t \in Tasks |->
               IF t = 1 THEN [IdleTask EXCEPT !.entry = entry, !.request = args]
               ELSE IdleTask]
  /\ request_log = <<>>
  /\ now = 0
  /\ requests = 0
  /\ arrivals = <<>>
  /\ scheduler = AsyncIOScheduler
  /\ lifespan = NotStarted

\* create_diff is about to be called with two of its arguments.
InitDiff == \E original, fixed \in DiffInputs :
              InitCall("create_diff", <<original, fixed>>)

\* extract_code is about to be called with one of its arguments.
InitExtract == \E text \in ExtractInputs : InitCall("extract_code", <<text>>)

\* SniffBot.initialize(api_key), called once at startup.
Initialize ==
  /\ groq_api_key = None
  /\ groq_api_key' = ApiKey
  /\ UNCHANGED <<memory, uuids, started, task, request_log, now, requests,
                 arrivals,
                 scheduler, lifespan>>

\* A call of _analyze_with_retry(code, lang) by task t, up to its first await.
CallRetry(t, code) ==
  /\ task[t].pc \in {"idle", "done"}
  /\ \E n \in {Attempt([IdleTask EXCEPT !.entry = "retry", !.code = code,
                                        !.lang = LangUnknown, !.calls = 1],
                       memory, groq_api_key)} :
       /\ task' = [task EXCEPT ![t] = n.ts]
       /\ memory' = n.mem
  /\ UNCHANGED <<groq_api_key, uuids, started, request_log, now, requests,
                 arrivals,
                 scheduler, lifespan>>

\* A call of process_messages(messages, context_id, task_id) by task t, up to
\* its first await.
Dispatch(t, messages, context_id, task_id) ==
  /\ task[t].pc \in {"idle", "done"}
  /\ started' = started + 1
  /\ \E p \in {process_messages([IdleTask EXCEPT !.entry = "dispatch"],
                                messages, context_id, task_id, memory, uuids,
                                groq_api_key)} :
       /\ task' = [task EXCEPT ![t] = p.run.ts]
       /\ memory' = p.run.mem
       /\ uuids' = p.uuids
  /\ UNCHANGED <<groq_api_key, request_log, now, requests, arrivals,
                 scheduler, lifespan>>

\* The request of agent.py 71 of task t ends in outcome o.
GroqResponds(t, o) ==
  /\ task[t].pc = "groq"
  /\ \E n \in {AfterAttempt(task[t], o, GroqResult(o, task[t].code), memory)} :
       /\ task' = [task EXCEPT ![t] = n.ts]
       /\ memory' = n.mem
  /\ UNCHANGED <<groq_api_key, uuids, started, request_log, now, requests,
                 arrivals,
                 scheduler, lifespan>>

\* The asyncio.sleep of agent.py 108 of task t ends.
SleepEnds(t) ==
  /\ task[t].pc = "sleep"
  /\ \E n \in {NextAttempt([task[t] EXCEPT !.attempt = @ + 1], memory,
                           groq_api_key)} :
       /\ task' = [task EXCEPT ![t] = n.ts]
       /\ memory' = n.mem
  /\ UNCHANGED <<groq_api_key, uuids, started, request_log, now, requests,
                 arrivals,
                 scheduler, lifespan>>

\* The request passes the checks of main.py 158-173, so that line 184 calls
\* is_rate_limited for it.
ReachesLimiter(req) ==
  /\ req.body = "object"
  /\ req.jsonrpc = "2.0" /\ req.has_id /\ req.has_method
  /\ req.method \in {"message/send", "execute"}

\* The task was answered with the response of main.py 187-199.
Refused(ts) == ts.pc = "done" /\ ts.response.status = 429

\* What the history keeps of a request that came to the limiter at t_now and
\* left the endpoint, or its first await, as ts: the identifier it was
\* counted under, whether it was refused, and its headers.
Arrival(req, t_now, ts) ==
  [identifier |-> Identifier(req), at |-> t_now, limited |-> Refused(ts),
   retry_after |-> IF Refused(ts) THEN ts.response.retry_after ELSE 0,
   user_id |-> req.user_id, channel_id |-> req.channel_id,
   forwarded |-> req.forwarded]

\* POST /a2a/sniff: request req arrives and task t runs a2a_endpoint, up to
\* its answer or its first await.
Request(t, req) ==
  /\ task[t].pc \in {"idle", "done"}
  /\ requests' = requests + 1
  /\ \E n \in {a2a_endpoint([IdleTask EXCEPT !.entry = "endpoint",
                                             !.request = req],
                            req, request_log, now, uuids, memory,
                            groq_api_key)} :
       /\ task' = [task EXCEPT ![t] = n.ts]
       /\ memory' = n.mem
       /\ uuids' = n.uuids
       /\ request_log' = n.log
       /\ started' = IF n.ts.dispatched THEN started + 1 ELSE started
       /\ arrivals' = IF ReachesLimiter(req)
                         THEN Append(arrivals, Arrival(req, now, n.ts))
                         ELSE arrivals
  /\ UNCHANGED <<groq_api_key, now, scheduler, lifespan>>

\* Task t calls create_diff(original, fixed) with its arguments.
CallCreateDiff(t) ==
  /\ task[t].entry = "create_diff"
  /\ task[t].pc = "idle"
  /\ task' = [task EXCEPT
                ![t].pc = "done",
                ![t].out = create_diff(task[t].request[1], task[t].request[2])]
  /\ UNCHANGED <<groq_api_key, memory, uuids, started, request_log, now,
                 requests, arrivals,
                 scheduler, lifespan>>

\* Task t calls extract_code(text) with its argument.
CallExtractCode(t) ==
  /\ task[t].entry = "extract_code"
  /\ task[t].pc = "idle"
  /\ task' = [task EXCEPT
                ![t].pc = "done",
                ![t].out = Return(ExtractCodeOf(task[t].request[1]))]
  /\ UNCHANGED <<groq_api_key, memory, uuids, started, request_log, now,
                 requests, arrivals,
                 scheduler, lifespan>>

\* main.lifespan up to its yield: the startup of the application, with
\* api_key what the environment holds.
Startup(api_key) ==
  /\ lifespan.phase = "down"
  /\ lifespan.starts < MaxSchedulerCalls
  /\ IF ~Truthy(api_key)
       THEN /\ lifespan' = [lifespan EXCEPT !.phase = "failed"]
            /\ UNCHANGED <<groq_api_key, scheduler>>
       ELSE /\ groq_api_key' = api_key
            /\ scheduler' = start_scheduler(scheduler)
            /\ lifespan' = [lifespan EXCEPT !.phase = "up", !.starts = @ + 1]
  /\ UNCHANGED <<memory, uuids, started, task, request_log, now, requests,
                 arrivals>>

\* main.lifespan after its yield: the shutdown of the application.
Shutdown ==
  /\ lifespan.phase = "up"
  /\ lifespan.stops < MaxSchedulerCalls
  /\ \E kept \in BOOLEAN : scheduler' = stop_scheduler(scheduler, kept)
  /\ lifespan' = [lifespan EXCEPT !.phase = "stopped", !.stops = @ + 1]
  /\ UNCHANGED <<groq_api_key, memory, uuids, started, task, request_log, now,
                 requests, arrivals>>

\* A call of start_scheduler() from elsewhere than the lifespan.
StartScheduler ==
  /\ lifespan.starts < MaxSchedulerCalls
  /\ scheduler' = start_scheduler(scheduler)
  /\ lifespan' = [lifespan EXCEPT !.starts = @ + 1]
  /\ UNCHANGED <<groq_api_key, memory, uuids, started, task, request_log, now,
                 requests, arrivals>>

\* A call of stop_scheduler() from elsewhere than the lifespan.
StopScheduler ==
  /\ lifespan.stops < MaxSchedulerCalls
  /\ \E kept \in BOOLEAN : scheduler' = stop_scheduler(scheduler, kept)
  /\ lifespan' = [lifespan EXCEPT !.stops = @ + 1]
  /\ UNCHANGED <<groq_api_key, memory, uuids, started, task, request_log, now,
                 requests, arrivals>>

\* d ticks pass.
Tick(d) ==
  /\ now' = now + d
  /\ UNCHANGED <<groq_api_key, memory, uuids, started, task, request_log,
                 requests, arrivals,
                 scheduler, lifespan>>

\* The retry wrapper called directly, by one task.
NextRetry ==
  \/ Initialize
  \/ \E code \in Codes : CallRetry(1, code)
  \/ \E o \in Outcomes : GroqResponds(1, o)
  \/ SleepEnds(1)

SpecRetry == Init /\ [][NextRetry]_vars

\* process_messages called once, with every batch and every outcome of the
\* AI request.
NextDispatch ==
  \/ Initialize
  \/ /\ started < MaxDispatches
     /\ \E b \in Batches, c \in ContextIds, i \in TaskIds : Dispatch(1, b, c, i)
  \/ \E o \in Outcomes : GroqResponds(1, o)
  \/ SleepEnds(1)

SpecDispatch == Init /\ [][NextDispatch]_vars

\* A conversation: process_messages called turn after turn.
NextConversation ==
  \/ Initialize
  \/ /\ started < MaxTurns
     /\ \E b \in Batches, c \in {NoId, ClientId(1)} : Dispatch(1, b, c, NoId)
  \/ \E o \in FewOutcomes : GroqResponds(1, o)
  \/ SleepEnds(1)

SpecConversation == Init /\ [][NextConversation]_vars

\* The decision list of process_messages: turns on one context id whose
\* batches meet several rules at once.
NextRules ==
  \/ Initialize
  \/ /\ started < MaxTurns
     /\ \E b \in RuleBatches : Dispatch(1, b, ClientId(1), NoId)
  \/ \E o \in FewOutcomes : GroqResponds(1, o)
  \/ SleepEnds(1)

SpecRules == Init /\ [][NextRules]_vars

\* Dispatches of several tasks on the event loop: one runs while another is
\* suspended at an await.  A task serves one call, and the tasks are numbered
\* in the order of their calls.
NextConcurrent ==
  \/ Initialize
  \/ /\ started < NumTasks
     /\ \E b \in ConcurrentBatches, c \in {ClientId(1), ClientId(2)} :
          Dispatch(started + 1, b, c, NoId)
  \/ \E t \in Tasks, o \in ConcurrentOutcomes : GroqResponds(t, o)

SpecConcurrent == Init /\ [][NextConcurrent]_vars

\* Dispatches of several tasks on one context id, each suspended at the AI
\* request and at the backoff waits while the others run.
NextSameContext ==
  \/ Initialize
  \/ /\ started < NumTasks
     /\ \E b \in SameContextBatches : Dispatch(started + 1, b, ClientId(1), NoId)
  \/ \E t \in Tasks, o \in SameContextOutcomes : GroqResponds(t, o)
  \/ \E t \in Tasks : SleepEnds(t)

SpecSameContext == Init /\ [][NextSameContext]_vars

\* The HTTP endpoint, serving one request at a time.
NextEndpoint ==
  \/ Initialize
  \/ /\ requests < MaxRequests
     /\ \E req \in Requests : Request(1, req)
  \/ \E o \in FewOutcomes : GroqResponds(1, o)
  \/ SleepEnds(1)
  \/ \E d \in Delays : now + d <= MaxClock * TicksPerSecond /\ Tick(d)

SpecEndpoint == Init /\ [][NextEndpoint]_vars

\* The execute method: the requests of one client, one at a time.
NextExecute ==
  \/ Initialize
  \/ /\ requests < MaxExecutes
     /\ \E req \in ExecuteRequests : Request(1, req)
  \/ \E o \in FewOutcomes : GroqResponds(1, o)
  \/ SleepEnds(1)

SpecExecute == Init /\ [][NextExecute]_vars

\* create_diff called once, with every pair of its arguments.
NextDiff == CallCreateDiff(1)

SpecDiff == InitDiff /\ [][NextDiff]_vars

\* extract_code called once, with every one of its arguments.
NextExtract == CallExtractCode(1)

SpecExtract == InitExtract /\ [][NextExtract]_vars

\* The rate limiter: requests of two clients, any time apart, a refused
\* client coming back after the wait it was told.
NextRate ==
  \/ /\ requests < MaxRateRequests
     /\ \E req \in RateRequests : Request(1, req)
  \/ \E d \in RateDelays \cup RetryAfters :
       now + d <= MaxRateClock * TicksPerSecond /\ Tick(d)

SpecRate == Init /\ [][NextRate]_vars

\* The identifier of the rate limiter: requests that differ in their
\* headers, within one window.
NextHeaders ==
  /\ requests < MaxHeaderRequests
  /\ \E req \in HeaderRequests : Request(1, req)

SpecHeaders == Init /\ [][NextHeaders]_vars

\* The quota of one client: requests that fail one check or none, within a
\* window or a window apart.
NextQuota ==
  \/ /\ requests < MaxQuotaRequests
     /\ \E req \in QuotaRequests : Request(1, req)
  \/ \E d \in RateDelays :
       now + d <= MaxRateClock * TicksPerSecond /\ Tick(d)

SpecQuota == Init /\ [][NextQuota]_vars

\* The application is started and shut down, and start_scheduler and
\* stop_scheduler are called at any time besides.
NextLifespan ==
  \/ \E api_key \in ApiKeys : Startup(api_key)
  \/ Shutdown
  \/ StartScheduler
  \/ StopScheduler

SpecLifespan == Init /\ [][NextLifespan]_vars

(***************************************************************************)
(* The properties.                                                         *)
(***************************************************************************)
\* The request is a message/send call whose envelope and params validate.
ValidSend(req) ==
  /\ req.body = "object"
  /\ req.jsonrpc = "2.0" /\ req.has_id /\ req.has_method
  /\ req.method = "message/send"
  /\ req.params = "valid"

\* C1: a message/send request whose params validate and which is not rate
\* limited is handed to the dispatcher and answered with HTTP 200 and a
\* JSON-RPC result holding the TaskResult, never with a JSON-RPC error.
C1_SendIsDispatched ==
  \A t \in Tasks :
    (/\ task[t].entry = "endpoint"
     /\ task[t].pc = "done"
     /\ ValidSend(task[t].request)
     /\ task[t].response.status # 429)
    => /\ task[t].dispatched
       /\ task[t].response.status = 200
       /\ task[t].response.kind = "result"
       /\ {"id", "contextId", "status", "history", "kind"}
            \subseteq DOMAIN task[t].response.result

\* The fallback of a rate-limited (HTTP 429) attempt on code.
RateLimitFallback(code) == _fallback_result(ExplRateLimit, code)

\* Every attempt of the call of task t so far was rate limited.
AllRateLimited(t) ==
  \A i \in 1..Len(task[t].trace) :
    task[t].trace[i] = RateLimitFallback(task[t].code)

\* C2: the retry wrapper calls _analyze_with_groq at most 3 times, stops at
\* the first attempt whose result is not a rate-limited fallback and returns
\* that result unchanged, and after 3 rate-limited attempts returns the "Max
\* retries exceeded" fallback (severity Medium, fixed_code the input code).
C2_RetryContract ==
  \A t \in Tasks :
    task[t].entry = "retry"
    => /\ Len(task[t].trace) <= 3
       /\ \A i \in 1..Len(task[t].trace) :
            task[t].trace[i] # RateLimitFallback(task[t].code)
            => /\ i = Len(task[t].trace)
               /\ task[t].pc = "done"
               /\ task[t].out = Return(task[t].trace[i])
       /\ (task[t].pc = "done" /\ AllRateLimited(t))
          => /\ Len(task[t].trace) = 3
             /\ task[t].out =
                  Return(Dict([severity |-> Str(TxtMedium),
                               explanation |-> Str(ExplMaxRetries),
                               fixed_code |-> Str(task[t].code),
                               commit_message |-> Str(FallbackCommit),
                               diff |-> Str(NoChangesDiff)]))

\* C3: a further attempt or wait follows only an attempt that ended in the
\* rate-limit (HTTP 429) fallback; every other result is returned at once.
C3_RetryOnlyAfter429 ==
  \A t \in Tasks :
    \A i \in 1..Len(task[t].trace) :
      (i < Len(task[t].trace) \/ task[t].pc = "sleep")
      => /\ task[t].outcomes[i].kind = "response"
         /\ task[t].outcomes[i].status = 429

\* C4: no exception escapes the retry wrapper or the dispatcher, whatever
\* the AI call ends in: the dispatch returns a TaskResult.
C4_NoExceptionEscapes ==
  \A t \in Tasks :
    (task[t].entry \in {"retry", "dispatch"} /\ task[t].pc = "done")
    => ~task[t].out.raised

\* r is a fallback for code: an object of severity Medium whose fixed_code is
\* code.
IsFallbackFor(r, code) ==
  /\ IsDict(r)
  /\ {"severity", "explanation", "fixed_code"} \subseteq DOMAIN r.fields
  /\ r.fields.severity = Str(TxtMedium)
  /\ r.fields.fixed_code = Str(code)
  /\ IsStr(r.fields.explanation)

\* The explanation of fallback r contains words, whatever the case.
Explains(r, words) == Contains(Lower(r.fields.explanation.s), words)

\* The body of a 200 response cannot be parsed.
Unparseable(o) ==
  \/ o.body = "notjson"
  \/ o.body = "chat" /\ json_loads(_extract_json(Strip(o.content))).raised

\* The words the fallback of a failed request cites, <<>> for a request that
\* did not fail.
FailureWords(o) ==
  IF o.kind = "timeout" THEN <<"t","i","m","e","d"," ","o","u","t">>
  ELSE IF o.kind = "error"
    THEN <<"a","n","a","l","y","s","i","s"," ","f","a","i","l","e","d">>
  ELSE IF o.kind # "response" THEN <<>>
  ELSE IF o.status = 429 THEN <<"r","a","t","e"," ","l","i","m","i","t">>
  ELSE IF o.status # 200 THEN NatStr(o.status)
  ELSE IF Unparseable(o)
    THEN <<"i","n","v","a","l","i","d"," ","j","s","o","n">>
  ELSE IF o.body = "nochoices"
    THEN <<"a","n","a","l","y","s","i","s"," ","f","a","i","l","e","d">>
  ELSE <<>>

\* C5: each failure of an analysis call gives its own fallback: 429 "rate
\* limit", another status the status, a timeout "timed out", an unparseable
\* body "invalid JSON", another exception "analysis failed"; each has
\* severity Medium and fixed_code the submitted code, and only the 429 one
\* mentions a rate limit.
C5_FailureFallbacks ==
  \A t \in Tasks :
    \A i \in 1..Len(task[t].trace) :
      FailureWords(task[t].outcomes[i]) # <<>>
      => /\ IsFallbackFor(task[t].trace[i], task[t].code)
         /\ Explains(task[t].trace[i], FailureWords(task[t].outcomes[i]))
         /\ Explains(task[t].trace[i], TxtRateLimit)
              <=> task[t].outcomes[i] = Chat(429, "chat", <<>>)

\* A 429 and then a timeout: the wrapper returned the second fallback.
C5_Witness ==
  \E t \in Tasks :
    /\ task[t].entry = "retry"
    /\ task[t].pc = "done"
    /\ Len(task[t].trace) = 2
    /\ task[t].outcomes[1] = Chat(429, "chat", <<>>)
    /\ task[t].outcomes[2].kind = "timeout"
    /\ task[t].out = Return(task[t].trace[2])

\* v has the shape of a ReviewResult: an object with the four fields whose
\* severity is Low, Medium or High.
IsReviewResult(v) ==
  /\ IsDict(v)
  /\ {"severity", "explanation", "fixed_code", "commit_message"}
       \subseteq DOMAIN v.fields
  /\ v.fields.severity \in {Str(TxtLow), Str(TxtMedium), Str(TxtHigh)}

\* C6: a 200 response whose JSON has not the shape of a ReviewResult is
\* replaced by the "invalid JSON" fallback, so every result of an analysis
\* call, and so every one the retry wrapper hands to the dispatcher, has the
\* four fields and a severity of Low, Medium or High.
C6_ShapeIsValidated ==
  \A t \in Tasks :
    \A i \in 1..Len(task[t].trace) : IsReviewResult(task[t].trace[i])

\* The text of the message attached to the status of TaskResult r.
StatusText(r) == FullText(r.status.message)

\* C7: a dispatch with an empty batch on a context id without stored
\* conversation ends failed with the "No message provided" error message,
\* makes no AI call and leaves the store as it was, without an entry for the
\* context id.
C7_EmptyBatchFails ==
  \A t \in Tasks :
    (/\ task[t].entry = "dispatch"
     /\ task[t].batch = <<>>
     /\ task[t].context_id \notin DOMAIN task[t].prior)
    => /\ task[t].pc = "done"
       /\ ~task[t].out.raised
       /\ task[t].out.value.status.state = "failed"
       /\ StatusText(task[t].out.value) = ErrorHead \o MsgNoMessage \o ErrorTail
       /\ task[t].calls = 0
       /\ task[t].outcomes = <<>>
       /\ memory = task[t].prior
       /\ task[t].context_id \notin DOMAIN memory

\* An empty batch on a fresh context id while another conversation is stored.
C7_Witness ==
  \E t \in Tasks :
    /\ task[t].entry = "dispatch"
    /\ task[t].pc = "done"
    /\ task[t].batch = <<>>
    /\ task[t].context_id \notin DOMAIN task[t].prior
    /\ task[t].prior # <<>>
    /\ task[t].out.value.status.state = "failed"

\* The active turn of the dispatch of task t holds the review trigger and
\* code, and is neither a greeting nor a help command.
ReviewTurn(t) ==
  /\ task[t].entry = "dispatch"
  /\ task[t].messages # <<>>
  /\ \E text \in {FullText(task[t].messages[Len(task[t].messages)])} :
       /\ Contains(Strip(Lower(text)), TriggerSniffThis)
       /\ Strip(extract_code(text).code) # <<>>
       /\ ~_is_greeting(Strip(Lower(text)))
       /\ ~_is_help_command(Strip(Lower(text)))

\* C8: a dispatch whose active turn holds the review trigger and code calls
\* the Review Requester exactly once with that code, ends completed, and
\* stores the processed history followed by the response, which is also the
\* history of the TaskResult.
C8_ReviewCompletes ==
  \A t \in Tasks :
    ReviewTurn(t)
    => /\ task[t].calls = 1
       /\ task[t].code
            = extract_code(FullText(task[t].messages[Len(task[t].messages)])).code
       /\ task[t].pc = "done"
          => /\ ~task[t].out.raised
             /\ task[t].out.value.status.state = "completed"
             /\ task[t].context_id \in DOMAIN memory
             /\ memory[task[t].context_id]
                  = Append(task[t].messages, task[t].out.value.status.message)
             /\ memory[task[t].context_id] = task[t].out.value.history

\* The names of the artifacts of TaskResult r, in order.
ArtifactNames(r) == [k \in 1..Len(r.artifacts) |-> r.artifacts[k].name]

\* C9: a TaskResult carries artifacts if and only if its state is completed,
\* and then exactly review, diff and commit, in that order.
C9_ArtifactsIffCompleted ==
  \A t \in Tasks :
    (task[t].entry = "dispatch" /\ task[t].pc = "done" /\ ~task[t].out.raised)
    => /\ task[t].out.value.status.state
            \in {"completed", "input-required", "failed"}
       /\ task[t].out.value.status.state = "completed"
            <=> task[t].out.value.artifacts # <<>>
       /\ task[t].out.value.status.state = "completed"
            => ArtifactNames(task[t].out.value) = <<"review", "diff", "commit">>

\* A completed review of a turn with fenced code.
C9_Witness ==
  \E t \in Tasks :
    /\ task[t].entry = "dispatch"
    /\ task[t].pc = "done"
    /\ ~task[t].out.raised
    /\ task[t].out.value.status.state = "completed"
    /\ Len(task[t].out.value.artifacts) = 3
    /\ task[t].outcomes = <<Chat(200, "chat", <<"DocGood">>)>>

\* The dispatch of task t, with a non-empty batch, has produced its response.
Responded(t) ==
  /\ task[t].entry = "dispatch"
  /\ task[t].pc = "done"
  /\ task[t].batch # <<>>
  /\ ~task[t].out.raised

\* C10 as stated: after a dispatch with non-empty batch B has produced its
\* response m, in whatever state, the stored sequence is B followed by m.
C10_StoredIsBatchAndResponse ==
  \A t \in Tasks :
    Responded(t)
    => /\ task[t].context_id \in DOMAIN memory
       /\ memory[task[t].context_id]
            = Append(task[t].batch, task[t].out.value.status.message)

\* C10, amended: the batch replaces what was stored, and the response is
\* appended to it when the dispatch ends completed; when it ends
\* input-required the stored sequence is the batch alone.
C10_StoredIsBatchThenResponseIfCompleted ==
  \A t \in Tasks :
    Responded(t)
    => /\ task[t].context_id \in DOMAIN memory
       /\ memory[task[t].context_id]
            = IF task[t].out.value.status.state = "completed"
                THEN Append(task[t].batch, task[t].out.value.status.message)
                ELSE task[t].batch

\* A completed review on a context id under which another conversation was
\* stored before.
C10_Witness ==
  \E t \in Tasks :
    /\ Responded(t)
    /\ task[t].out.value.status.state = "completed"
    /\ task[t].context_id \in DOMAIN task[t].prior
    /\ task[t].prior[task[t].context_id] # task[t].batch
    /\ memory[task[t].context_id]
         = Append(task[t].batch, task[t].out.value.status.message)

\* The processed history of the dispatch of task t: the incoming batch, or
\* what was stored under the context id when the batch was empty.
Processed(t) ==
  IF task[t].batch # <<>> THEN task[t].batch
  ELSE MemGet(task[t].prior, task[t].context_id)

\* The dispatch of task t has returned a TaskResult whose state is not failed.
EndedNotFailed(t) ==
  /\ task[t].entry = "dispatch"
  /\ task[t].pc = "done"
  /\ ~task[t].out.raised
  /\ task[t].out.value.status.state # "failed"

\* C11: in every terminal state other than failed the history of the
\* TaskResult is the processed history, unmodified, followed by exactly one
\* agent message, the one attached to the status.
C11_HistoryIsProcessedThenResponse ==
  \A t \in Tasks :
    EndedNotFailed(t)
    => /\ task[t].out.value.history
            = Append(Processed(t), task[t].out.value.status.message)
       /\ task[t].out.value.status.message.role = "agent"
       /\ task[t].out.value.status.message \in
            { AgentMessage(StatusText(task[t].out.value), task[t].task_id, c) :
                c \in {NoId, task[t].context_id} }

\* An empty batch on a stored conversation of two messages ends
\* input-required with a history of three.
C11_Witness ==
  \E t \in Tasks :
    /\ EndedNotFailed(t)
    /\ task[t].batch = <<>>
    /\ Len(Processed(t)) = 2
    /\ Len(task[t].out.value.history) = 3
    /\ task[t].out.value.status.state = "input-required"

\* The dispatch of task t has returned a TaskResult whose state is failed.
EndedFailed(t) ==
  /\ task[t].entry = "dispatch"
  /\ task[t].pc = "done"
  /\ ~task[t].out.raised
  /\ task[t].out.value.status.state = "failed"

\* C12 as stated: on the "No message provided" error path the history of the
\* TaskResult is the original history, empty when nothing was stored: the
\* error message is attached to the status only.
C12_ErrorHistoryIsOriginal ==
  \A t \in Tasks :
    EndedFailed(t)
    => /\ StatusText(task[t].out.value) = ErrorHead \o MsgNoMessage \o ErrorTail
       /\ task[t].out.value.history = Processed(t)

\* C12, amended: on the error path the history of the TaskResult is the
\* original, empty, history followed by the error message that is attached
\* to the status, as on every other path.
C12_ErrorHistoryHoldsError ==
  \A t \in Tasks :
    EndedFailed(t)
    => /\ StatusText(task[t].out.value) = ErrorHead \o MsgNoMessage \o ErrorTail
       /\ Processed(t) = <<>>
       /\ task[t].out.value.history = <<task[t].out.value.status.message>>
       /\ task[t].out.value.status.message
            = AgentMessage(ErrorHead \o MsgNoMessage \o ErrorTail,
                           task[t].task_id, NoId)

\* An empty batch on a context id the caller chose, nothing being stored
\* under it while another conversation is stored, has ended failed.
C12_Witness ==
  \E t \in Tasks :
    /\ EndedFailed(t)
    /\ task[t].batch = <<>>
    /\ task[t].context_id = ClientId(1)
    /\ task[t].prior # <<>>
    /\ Len(task[t].out.value.history) = 1

\* The dispatch of task t has an active turn: its processed history is not
\* empty.
ActiveTurn(t) ==
  /\ task[t].entry = "dispatch"
  /\ task[t].messages # <<>>

\* The text of the active turn of task t, and that text lower-cased and
\* stripped.
ActiveText(t) == FullText(task[t].messages[Len(task[t].messages)])

ActiveLower(t) == Strip(Lower(ActiveText(t)))

\* The dispatch of task t has returned a TaskResult of the state whose status
\* message reads text.
EndsWith(t, state, text) ==
  /\ task[t].pc = "done"
  /\ ~task[t].out.raised
  /\ task[t].out.value.status.state = state
  /\ StatusText(task[t].out.value) = text

\* The text holds a greeting word and the mention, and neither of the two
\* phrases.
GreetingWithout(lower, review_phrase, fix_phrase) ==
  /\ \E g \in Greetings : Contains(lower, g)
  /\ Contains(lower, <<"@","s","n","i","f","f","b","o","t">>)
  /\ ~Contains(lower, review_phrase)
  /\ ~Contains(lower, fix_phrase)

\* C13 as stated: an active turn whose lower-cased text holds a greeting
\* word and "@sniffbot" and neither the literal "@sniffbot sniff this" nor
\* the literal "@sniffbot fix last" ends input-required with the greeting
\* text, also when it holds a help token.
C13_GreetingUnlessTrigger ==
  \A t \in Tasks :
    (/\ ActiveTurn(t)
     /\ GreetingWithout(ActiveLower(t), TriggerSniffThis, TriggerFixLast))
    => EndsWith(t, "input-required", GreetingText)

\* C13, amended: an active turn whose lower-cased text holds a greeting word
\* and "@sniffbot" and neither "sniff this" nor "fix last", with or without
\* the mention before them, ends input-required with the greeting text, also
\* when it holds a help token; no Review Requester call is made.
C13_GreetingUnlessCommandWords ==
  \A t \in Tasks :
    (/\ ActiveTurn(t)
     /\ GreetingWithout(ActiveLower(t), <<"s","n","i","f","f"," ","t","h","i","s">>,
                        <<"f","i","x"," ","l","a","s","t">>))
    => /\ EndsWith(t, "input-required", GreetingText)
       /\ task[t].calls = 0

\* A greeting that asks for help has been answered with the greeting text.
C13_Witness ==
  \E t \in Tasks :
    /\ ActiveTurn(t)
    /\ ActiveText(t) = TxtHelloHelp
    /\ _is_help_command(ActiveLower(t))
    /\ EndsWith(t, "input-required", GreetingText)

\* The text holds one of the help tokens.
HoldsHelpToken(lower) ==
  \E token \in { <<"h","e","l","p">>, <<"?">>, <<"h","o","w">>,
                 <<"w","h","a","t">>, <<"u","s","a","g","e">>,
                 <<"c","o","m","m","a","n","d","s">> } :
    Contains(lower, token)

\* C14: help precedes the review and the fix-last rules.  An active turn that
\* is not a greeting and whose text holds a help token ends input-required
\* with the help text, without a Review Requester call, also when the text
\* holds the review trigger with code or the fix-last trigger.
C14_HelpBeforeReview ==
  \A t \in Tasks :
    (/\ ActiveTurn(t)
     /\ ~_is_greeting(ActiveLower(t))
     /\ HoldsHelpToken(ActiveLower(t)))
    => /\ EndsWith(t, "input-required", HelpText)
       /\ task[t].calls = 0
       /\ task[t].outcomes = <<>>
       /\ task[t].out.value.artifacts = <<>>

\* A turn holding "help", the review trigger and fenced code has been
\* answered with the help text.
C14_Witness ==
  \E t \in Tasks :
    /\ ActiveTurn(t)
    /\ HoldsHelpToken(ActiveLower(t))
    /\ Contains(ActiveLower(t), TriggerSniffThis)
    /\ Strip(extract_code(ActiveText(t)).code) # <<>>
    /\ EndsWith(t, "input-required", HelpText)

\* The active turn of task t is a fix-last turn: it holds the fix-last
\* trigger and meets none of the greeting, help and review rules.
FixLastTurn(t) ==
  /\ ActiveTurn(t)
  /\ Contains(ActiveLower(t), TriggerFixLast)
  /\ ~_is_greeting(ActiveLower(t))
  /\ ~HoldsHelpToken(ActiveLower(t))
  /\ ~(/\ Contains(ActiveLower(t), TriggerSniffThis)
       /\ Strip(extract_code(ActiveText(t)).code) # <<>>)

\* C15: a fix-last turn whose processed history has fewer than 2 messages
\* ends input-required with the "no previous code" message, without a Review
\* Requester call, and nothing is appended to the stored conversation.
C15_FixLastNeedsTwoMessages ==
  \A t \in Tasks :
    (FixLastTurn(t) /\ Len(Processed(t)) < 2)
    => /\ EndsWith(t, "input-required", MsgNoPrevious)
       /\ task[t].calls = 0
       /\ task[t].outcomes = <<>>
       /\ MemGet(memory, task[t].context_id) = Processed(t)
       /\ task[t].batch = <<>> => memory = task[t].prior

\* A fix-last turn alone in its batch, on a context id under which a longer
\* conversation was stored, has been answered.
C15_Witness ==
  \E t \in Tasks :
    /\ FixLastTurn(t)
    /\ Len(task[t].batch) = 1
    /\ Len(MemGet(task[t].prior, task[t].context_id)) >= 2
    /\ EndsWith(t, "input-required", MsgNoPrevious)

\* The places before the active turn of task t of the messages a user wrote
\* and from which code is extracted.
CodeBearing(t) ==
  { i \in 1..(Len(task[t].messages) - 1) :
      /\ task[t].messages[i].role = "user"
      /\ Strip(extract_code(FullText(task[t].messages[i])).code) # <<>> }

\* The dispatch of task t reviews the code of the message at place i: one
\* Review Requester call with that code, and when the dispatch has ended, it
\* has ended completed with a diff artifact.
ReviewsMessage(t, i) ==
  /\ task[t].calls = 1
  /\ task[t].code = extract_code(FullText(task[t].messages[i])).code
  /\ task[t].pc = "done"
     => /\ ~task[t].out.raised
        /\ task[t].out.value.status.state = "completed"
        /\ \E k \in 1..Len(task[t].out.value.artifacts) :
             task[t].out.value.artifacts[k].name = "diff"

\* C16: a fix-last turn with at least 2 messages in the processed history
\* reviews the code of the latest earlier message of a user from which code
\* is extracted, skipping the agent's messages and the user's messages
\* without code, and ends completed with a diff artifact; when there is no
\* such message it ends input-required with the "couldn't find any previous
\* code" message and makes no Review Requester call.
C16_FixLastReviewsLatestCode ==
  \A t \in Tasks :
    (FixLastTurn(t) /\ Len(task[t].messages) >= 2)
    => IF CodeBearing(t) # {}
         THEN ReviewsMessage(t, MaxOf(CodeBearing(t)))
         ELSE /\ EndsWith(t, "input-required", MsgCouldNotFind)
              /\ task[t].calls = 0

\* The active turn of task t meets none of the greeting, help, review and
\* fix-last rules.
NoEarlierRule(t) ==
  /\ ActiveTurn(t)
  /\ ~_is_greeting(ActiveLower(t))
  /\ ~HoldsHelpToken(ActiveLower(t))
  /\ ~(/\ Contains(ActiveLower(t), TriggerSniffThis)
       /\ Strip(extract_code(ActiveText(t)).code) # <<>>)
  /\ ~Contains(ActiveLower(t), TriggerFixLast)

\* One of the last 5 messages of stored is an agent's and holds one of the
\* two headings of a review.
RecentReview(stored) ==
  \E i \in 1..Len(stored) :
    /\ i > Len(stored) - 5
    /\ stored[i].role = "agent"
    /\ \/ Contains(FullText(stored[i]), <<"S","n","i","f","f","B","o","t"," ",
                                          "C","o","d","e"," ","R","e","v","i",
                                          "e","w">>)
       \/ Contains(FullText(stored[i]), <<"S","n","i","f","f","B","o","t"," ",
                                          "C","o","d","e"," ","R","e","-","R",
                                          "e","v","i","e","w">>)

\* C17: when no earlier rule matches, the dispatch ends input-required, and
\* with the "you're welcome" text if and only if the batch (or the stored
\* history processed in place of an empty batch) has more than one message
\* and one of the last 5 stored messages of the context is an agent's
\* message holding "SniffBot Code Review" or "SniffBot Code Re-Review".  A
\* review older than the last 5 does not count, and a batch of one message
\* is never answered so.
C17_FollowUpIffRecentReview ==
  \A t \in Tasks :
    NoEarlierRule(t)
    => /\ task[t].pc = "done"
       /\ ~task[t].out.raised
       /\ task[t].out.value.status.state = "input-required"
       /\ task[t].calls = 0
       /\ StatusText(task[t].out.value) = MsgYoureWelcome
            <=> /\ Len(Processed(t)) > 1
                /\ RecentReview(MemGet(memory, task[t].context_id))

\* A batch of three messages whose second is a review of the agent has been
\* answered with the "you're welcome" text.
C17_Witness ==
  \E t \in Tasks :
    /\ NoEarlierRule(t)
    /\ Len(task[t].batch) = 3
    /\ task[t].batch[2].role = "agent"
    /\ RecentReview(MemGet(memory, task[t].context_id))
    /\ EndsWith(t, "input-required", MsgYoureWelcome)

\* The active turn of task t holds the review trigger and no code, and meets
\* none of the greeting, help and fix-last rules.
NoCodeTurn(t) ==
  /\ NoEarlierRule(t)
  /\ Contains(ActiveLower(t), TriggerSniffThis)
  /\ Strip(extract_code(ActiveText(t)).code) = <<>>

\* C18: an active turn that holds the review trigger but no extractable code
\* ends input-required with the no-code instructions and never with the
\* default hint, except that the follow-up rule goes first: when it matches
\* too, the "you're welcome" text is returned.
C18_NoCodeAfterFollowUp ==
  \A t \in Tasks :
    NoCodeTurn(t)
    => /\ task[t].calls = 0
       /\ EndsWith(t, "input-required",
                   IF /\ Len(Processed(t)) > 1
                      /\ RecentReview(MemGet(memory, task[t].context_id))
                     THEN MsgYoureWelcome
                     ELSE MsgNoCodeDetected)
       /\ StatusText(task[t].out.value) # MsgDefault

\* A trigger without code that follows a review of the agent has been
\* answered with the "you're welcome" text.
C18_Witness ==
  \E t \in Tasks :
    /\ NoCodeTurn(t)
    /\ Len(Processed(t)) = 3
    /\ RecentReview(Processed(t))
    /\ EndsWith(t, "input-required", MsgYoureWelcome)

\* C19: while no AI credential is configured, the Review Requester returns
\* the "not configured" fallback of severity Medium without an AI request and
\* without a wait, and a dispatch whose turn holds the review trigger and
\* code ends completed with exactly the 3 artifacts, the diff artifact being
\* the "no changes" placeholder.
C19_UnconfiguredFallback ==
  \A t \in Tasks :
    (/\ groq_api_key = None
     /\ task[t].entry = "dispatch"
     /\ task[t].calls >= 1)
    => /\ task[t].calls = 1
       /\ task[t].pc = "done"
       /\ Len(task[t].trace) = 1
       /\ IsFallbackFor(task[t].trace[1], task[t].code)
       /\ Explains(task[t].trace[1],
                   <<"n","o","t"," ","c","o","n","f","i","g","u","r","e","d">>)
       /\ \A k \in 1..Len(task[t].outcomes) :
            task[t].outcomes[k].kind = "unconfigured"
       /\ task[t].sleeps = <<>>
       /\ ReviewTurn(t)
          => /\ ~task[t].out.raised
             /\ task[t].out.value.status.state = "completed"
             /\ ArtifactNames(task[t].out.value) = <<"review", "diff", "commit">>
             /\ task[t].out.value.artifacts[2].parts
                  = <<MessagePart("text", NoChangesDiff)>>

\* A review turn dispatched before initialize() has ended completed.
C19_Witness ==
  \E t \in Tasks :
    /\ groq_api_key = None
    /\ ReviewTurn(t)
    /\ task[t].pc = "done"
    /\ task[t].sleeps = <<>>
    /\ ~task[t].out.raised
    /\ task[t].out.value.status.state = "completed"
    /\ Len(task[t].out.value.artifacts) = 3

\* The store when the dispatch of task t was called, without the
\* conversations of the other context ids.
OwnStore(t) ==
  IF task[t].context_id \in DOMAIN task[t].prior
    THEN MemPut(<<>>, task[t].context_id, task[t].prior[task[t].context_id])
    ELSE <<>>

\* The dispatch of task t, whose load step on its own stored conversation is
\* e and whose decision on it is d, has the locals and the result that e and
\* d give.
AgreesWith(t, e, d) ==
  /\ task[t].messages = e.messages
  /\ IF d.kind = "result"
       THEN task[t].pc = "done" /\ task[t].out = Return(d.result)
       ELSE /\ task[t].code = d.code
            /\ task[t].title = d.title
            /\ (task[t].pc = "done" /\ ~task[t].out.raised)
               => \E a \in { task[t].trace[Len(task[t].trace)],
                             _fallback_result(ExplMaxRetries, d.code) } :
                    \E c \in { Complete(e.messages, task[t].context_id,
                                        task[t].task_id, d.code, d.title, a) } :
                      ~c.raised /\ task[t].out.value = c.value.result

\* The dispatch of task t is the one that its batch and the conversation
\* stored under its own context id give: what is stored under another
\* context id has no part in it.
ReadsOwnOnly(t) ==
  (task[t].entry = "dispatch" /\ OwnStore(t) # task[t].prior)
  => \E e \in { LoadStep(task[t].batch, task[t].context_id, task[t].task_id,
                         OwnStore(t), 0) } :
       \E d \in { Decide(e) } : AgreesWith(t, e, d)

\* The step leaves the conversations stored under the context ids other than
\* that of task t as they were.
OthersUntouched(t) ==
  \A c \in DOMAIN memory \cup DOMAIN memory' :
    c # task'[t].context_id
    => /\ c \in DOMAIN memory
       /\ c \in DOMAIN memory'
       /\ memory'[c] = memory[c]

\* C20: a step of a dispatch on a context id, whatever the other dispatches
\* do in between, changes no conversation stored under another context id,
\* and its locals and result are those computed from its own stored
\* conversation alone.
C20_ContextsAreIndependent ==
  /\ [](\A t \in Tasks : ReadsOwnOnly(t))
  /\ [][\A t \in Tasks : task'[t] # task[t] => OthersUntouched(t)]_vars

\* Two dispatches on different context ids have ended completed, the second
\* one called while the first one was awaiting the AI service.
C20_Witness ==
  /\ \A t \in {1, 2} :
       /\ task[t].entry = "dispatch"
       /\ task[t].pc = "done"
       /\ ~task[t].out.raised
       /\ task[t].out.value.status.state = "completed"
       /\ memory[task[t].context_id] = task[t].out.value.history
  /\ task[1].context_id # task[2].context_id
  /\ task[1].context_id \in DOMAIN task[2].prior
  /\ task[2].prior[task[1].context_id] = task[1].batch

\* The requests of the history that came from identifier.
ArrivalsOf(identifier) ==
  {i \in 1..Len(arrivals) : arrivals[i].identifier = identifier}

\* The requests of identifier that were not refused and arrived from tick
\* from on and before tick to.
AdmittedWithin(identifier, from, to) ==
  {i \in ArrivalsOf(identifier) :
     ~arrivals[i].limited /\ from <= arrivals[i].at /\ arrivals[i].at < to}

\* The requests of its identifier that were admitted before request i and
\* less than a window before it.
WindowBefore(i) ==
  {k \in AdmittedWithin(arrivals[i].identifier,
                        arrivals[i].at - RATE_WINDOW * TicksPerSecond + 1,
                        arrivals[i].at + 1) : k < i}

\* C21: of one identifier at most RATE_LIMIT_PER_MINUTE requests are admitted
\* within any window of one minute (it is enough to look at the windows that
\* start when a request arrives); a request is refused exactly when the
\* window before it holds that many admitted requests of its own identifier,
\* whatever the other identifiers did; and a refused request is answered
\* with HTTP 429 and code -32000 and never comes to process_messages.
C21_AtMostLimitPerWindow ==
  /\ \A i \in 1..Len(arrivals) :
       /\ Cardinality(AdmittedWithin(arrivals[i].identifier, arrivals[i].at,
                                     arrivals[i].at
                                       + RATE_WINDOW * TicksPerSecond))
            <= RATE_LIMIT_PER_MINUTE
       /\ arrivals[i].limited
            <=> Cardinality(WindowBefore(i)) >= RATE_LIMIT_PER_MINUTE
  /\ \A t \in Tasks :
       (task[t].entry = "endpoint" /\ Refused(task[t]))
       => /\ task[t].response.kind = "error"
          /\ task[t].response.code = -32000
          /\ task[t].response.id = task[t].request.id
          /\ ~task[t].dispatched
          /\ task[t].calls = 0
          /\ task[t].out = None

\* A request was refused, and a request of another identifier that arrived
\* later within the same window was admitted.
C21_Witness ==
  /\ task[1].entry = "endpoint" /\ task[1].pc = "done"
  /\ \E i, j \in 1..Len(arrivals) :
       /\ i < j
       /\ arrivals[i].limited
       /\ ~arrivals[j].limited
       /\ arrivals[j].identifier # arrivals[i].identifier
       /\ arrivals[j].at - arrivals[i].at < RATE_WINDOW * TicksPerSecond

\* Request j is the first request of its identifier after the refused request
\* i that arrives when the wait told to i is over, and no request of that
\* identifier was admitted in between.
ComesBackAfterWait(i, j) ==
  /\ i < j
  /\ arrivals[i].limited
  /\ arrivals[j].identifier = arrivals[i].identifier
  /\ arrivals[j].at
       >= arrivals[i].at + arrivals[i].retry_after * TicksPerSecond
  /\ \A k \in ArrivalsOf(arrivals[i].identifier) :
       (i < k /\ k < j) => arrivals[k].limited

\* The timestamps equal to x in the log of identifier.
LoggedAt(identifier, x) ==
  {k \in 1..Len(LogGet(request_log, identifier)) :
     LogGet(request_log, identifier)[k] = x}

\* C22: every refusal tells a wait of at least one whole second; a refused
\* request is not recorded (the log of an identifier holds a tick no more
\* often than requests of the identifier were admitted at that tick); and the
\* wait is enough: the next request of the identifier that arrives when the
\* wait is over, none of its requests having been admitted meanwhile, is
\* admitted.
C22_RetryAfterIsEnough ==
  /\ \A i \in 1..Len(arrivals) :
       /\ arrivals[i].limited => arrivals[i].retry_after >= 1
       /\ ~arrivals[i].limited => arrivals[i].retry_after = 0
       /\ Cardinality(LoggedAt(arrivals[i].identifier, arrivals[i].at))
            <= Cardinality(AdmittedWithin(arrivals[i].identifier,
                                          arrivals[i].at, arrivals[i].at + 1))
  /\ \A i, j \in 1..Len(arrivals) :
       ComesBackAfterWait(i, j) => ~arrivals[j].limited
  /\ \A t \in Tasks :
       (task[t].entry = "endpoint" /\ Refused(task[t]))
       => task[t].response.retry_after >= 1

\* A request was refused half a second before the oldest admitted request of
\* its identifier left the window, so that it was told to wait one second,
\* and the request that came back exactly one second later was admitted.
C22_Witness ==
  /\ task[1].entry = "endpoint" /\ task[1].pc = "done" /\ ~Refused(task[1])
  /\ \E i \in 1..Len(arrivals) :
       /\ ComesBackAfterWait(i, Len(arrivals))
       /\ arrivals[i].retry_after = 1
       /\ now = arrivals[i].at + TicksPerSecond
       /\ Cardinality(WindowBefore(Len(arrivals))) = RATE_LIMIT_PER_MINUTE - 1

\* The body parses, and it is an object with "jsonrpc": "2.0", an id and a
\* method.
EnvelopeValid(req) ==
  /\ req.body = "object"
  /\ req.jsonrpc = "2.0" /\ req.has_id /\ req.has_method

\* The code the fixed order of the checks gives the request: 0 when it
\* passes them all.
RejectionCode(req) ==
  IF req.body = "notjson" THEN -32700
  ELSE IF ~EnvelopeValid(req) THEN -32600
  ELSE IF req.method \notin {"message/send", "execute"} THEN -32601
  ELSE IF req.params # "valid" THEN -32602
  ELSE 0

\* The task answered with HTTP 400 and the JSON-RPC error code, without
\* calling process_messages.
RejectedWith(ts, code) ==
  /\ ts.response.status = 400
  /\ ts.response.kind = "error"
  /\ ts.response.code = code
  /\ ~ts.dispatched
  /\ ts.calls = 0

\* C23: a request that fails a check is answered with the code of the first
\* check it fails (body unparseable -32700, envelope -32600, method -32601,
\* params -32602, the last one unless the rate limiter refused the request
\* first), with HTTP 400, and does not come to process_messages.
C23_RejectsInFixedOrder ==
  \A t \in Tasks :
    (/\ task[t].entry = "endpoint"
     /\ task[t].pc = "done"
     /\ RejectionCode(task[t].request) # 0
     /\ ~Refused(task[t]))
    => RejectedWith(task[t], RejectionCode(task[t].request))

\* The execute request of task t named both a context id and a task id, it
\* came to process_messages, and a TaskResult was returned for it.
ExecutedWithIds(t) ==
  /\ task[t].entry = "endpoint"
  /\ task[t].pc = "done"
  /\ task[t].dispatched
  /\ task[t].request.method = "execute"
  /\ task[t].request.contextId # NoId
  /\ task[t].request.taskId # NoId
  /\ task[t].response.kind = "result"

\* C24: the TaskResult of a dispatch that was given a context id and a task
\* id, as execute gives them, carries exactly those as its contextId and its
\* id, in every terminal state, failed included.
C24_ResultCarriesGivenIds ==
  \A t \in Tasks :
    ExecutedWithIds(t)
    => /\ task[t].response.result.contextId = task[t].request.contextId
       /\ task[t].response.result.id = task[t].request.taskId
       /\ task[t].response.result.status.state
            \in {"completed", "input-required", "failed"}

\* An execute request naming both ids and holding no message, on a context
\* without stored history, was answered with a failed TaskResult.
C24_Witness ==
  /\ ExecutedWithIds(1)
  /\ task[1].request.messages = <<>>
  /\ task[1].response.result.status.state = "failed"

\* Task t called create_diff with twice the same argument, and the call is
\* over.
DiffedWithItself(t) ==
  /\ task[t].entry = "create_diff"
  /\ task[t].pc = "done"
  /\ task[t].request[1] = task[t].request[2]

\* C25: create_diff(x, x) returns the "no changes" placeholder for every x,
\* None and the empty text included, so that it equals create_diff(y, y) for
\* every other argument y.
C25_DiffOfEqualsIsPlaceholder ==
  \A t \in Tasks :
    DiffedWithItself(t)
    => /\ task[t].out = Return(NoChangesDiff)
       /\ \A y \in DiffInputs : task[t].out = create_diff(y, y)

\* create_diff was called with twice the same text of eight lines, the last
\* one without its newline, and returned the placeholder.
C25_Witness ==
  /\ DiffedWithItself(1)
  /\ task[1].request[1] = Str(TxtEightLines)
  /\ task[1].out = Return(NoChangesDiff)

\* Task t called extract_code, and the call is over.
Extracts(t) == task[t].entry = "extract_code" /\ task[t].pc = "done"

\* v is a text: a sequence of characters.
IsText(v) == v = <<>> \/ (DOMAIN v = 1..Len(v) /\ \A k \in 1..Len(v) : v[k] \in STRING)

\* C26: extract_code returns for every argument (empty, blank, no str, any
\* text) without raising, what it returns is a pair of texts, and the code is
\* empty exactly when the language is: ("", "") alone says "no code found".
C26_ExtractIsTotal ==
  \A t \in Tasks :
    Extracts(t)
    => /\ ~task[t].out.raised
       /\ DOMAIN task[t].out.value = {"code", "lang"}
       /\ IsText(task[t].out.value.code)
       /\ IsText(task[t].out.value.lang)
       /\ task[t].out.value.code = <<>> <=> task[t].out.value.lang = <<>>
       /\ (~IsStr(task[t].request[1]) \/ Strip(task[t].request[1].s) = <<>>)
            => task[t].out.value = Extracted(<<>>, <<>>)

\* extract_code was called with a text that holds code of no known language
\* and returned the code with the language "unknown".
C26_Witness ==
  /\ Extracts(1)
  /\ task[1].request[1] = Str(<<"x", "=", BQ>>)
  /\ task[1].out.value.code # <<>>
  /\ task[1].out.value.lang = LangUnknown

\* The step ends the dispatch of task t, which was suspended at the AI
\* request, with a TaskResult.
CompletesNow(t) ==
  /\ task[t].entry = "dispatch"
  /\ task[t].pc \in {"groq", "sleep"}
  /\ task'[t].pc = "done"
  /\ ~task'[t].out.raised

\* C27: the dispatch that completes holds, since before it was suspended,
\* its own processed history; its TaskResult holds that history followed by
\* its own response, and that is what it writes under the context id,
\* replacing whatever the other dispatches stored there meanwhile.
C27_LastWriterWins ==
  [][\A t \in Tasks :
       CompletesNow(t)
       => /\ task[t].messages = Processed(t)
          /\ task'[t].messages = task[t].messages
          /\ task'[t].out.value.history
               = Append(task[t].messages, task'[t].out.value.status.message)
          /\ task[t].context_id \in DOMAIN memory'
          /\ memory'[task[t].context_id] = task'[t].out.value.history]_vars

\* Two dispatches on one context id, with different batches, have completed;
\* the second was called while the first was suspended and wrote before it,
\* the first waited for a retry and wrote last: the store holds the history
\* of the first, in which no message of the second appears.
C27_Witness ==
  /\ \A t \in {1, 2} :
       /\ task[t].entry = "dispatch"
       /\ task[t].pc = "done"
       /\ ~task[t].out.raised
       /\ task[t].out.value.status.state = "completed"
       /\ task[t].batch # <<>>
  /\ task[1].context_id = task[2].context_id
  /\ task[1].batch # task[2].batch
  /\ task[1].sleeps # <<>>
  /\ MemGet(task[2].prior, task[2].context_id) = task[1].batch
  /\ memory[task[1].context_id] = task[1].out.value.history
  /\ memory[task[1].context_id] # task[2].out.value.history
  /\ \A k \in 1..Len(task[1].out.value.history) :
       task[1].out.value.history[k] \notin
         {task[2].batch[1], task[2].out.value.status.message}

\* The dispatch of task t, called with a non-empty batch, has returned a
\* TaskResult.
ReturnedForBatch(t) ==
  /\ task[t].entry = "dispatch"
  /\ task[t].batch # <<>>
  /\ task[t].pc = "done"
  /\ ~task[t].out.raised

\* The analysis the retry wrapper returned to task t: the fallback once
\* max_retries waits were made, else the result of the last attempt.
FinalAnalysis(t, code) ==
  IF Len(task[t].sleeps) = max_retries
    THEN _fallback_result(ExplMaxRetries, code)
    ELSE task[t].trace[Len(task[t].trace)]

\* The TaskResults r and q have the same terminal state, response text,
\* artifacts and history.
SameOutcome(r, q) ==
  /\ r.status.state = q.status.state
  /\ StatusText(r) = StatusText(q)
  /\ r.artifacts = q.artifacts
  /\ r.history = q.history

\* The TaskResult of task t is the one that the load step e and the decision
\* d on it give, together with the outcomes of the AI requests of t.
OutcomeOf(t, e, d) ==
  IF d.kind = "result"
    THEN task[t].trace = <<>> /\ SameOutcome(task[t].out.value, d.result)
    ELSE \E c \in { Complete(e.messages, e.context_id, e.task_id, d.code,
                             d.title, FinalAnalysis(t, d.code)) } :
           ~c.raised /\ SameOutcome(task[t].out.value, c.value.result)

\* C28: the terminal state, response text, artifacts and history of the
\* TaskResult of a dispatch with a non-empty batch are those that the batch
\* and the outcomes of its AI requests give on an empty store, whatever was
\* stored when it was called and whatever the other dispatches did while it
\* was suspended; two dispatches with the same batch and the same outcomes
\* therefore have the same.
C28_ResultDependsOnBatchOnly ==
  \A t \in Tasks :
    ReturnedForBatch(t)
    => \E e \in { LoadStep(task[t].batch, task[t].context_id, task[t].task_id,
                           <<>>, 0) } :
         \E d \in { Decide(e) } : OutcomeOf(t, e, d)

\* A dispatch whose batch holds no review was called when a review was
\* stored under its context id, and returned what its batch alone gives: the
\* hint, not the reply to a follow-up.
C28_Witness ==
  /\ ReturnedForBatch(2)
  /\ task[1].entry = "dispatch" /\ task[1].pc = "done" /\ ~task[1].out.raised
  /\ task[1].out.value.status.state = "completed"
  /\ task[2].context_id = task[1].context_id
  /\ MemGet(task[2].prior, task[2].context_id) = task[1].out.value.history
  /\ task[2].batch = <<UserMessage(TxtThanks), UserMessage(TxtThanks)>>
  /\ task[2].out.value.status.state = "input-required"
  /\ task[2].out.value.history
       = Append(task[2].batch, task[2].out.value.status.message)

\* A step of a suspended dispatch ends it, or ends an AI request (one more
\* result in the trace) or a wait (the loop variable attempt one greater),
\* and there are at most max_retries results and attempt stays below
\* max_retries: a dispatch whose AI requests and waits all end is over after
\* at most 2 * max_retries steps.
DispatchAdvances ==
  /\ [](\A t \in Tasks :
         (task[t].entry = "dispatch" /\ task[t].pc \in {"groq", "sleep"})
         => Len(task[t].trace) <= max_retries /\ task[t].attempt < max_retries)
  /\ [][\A t \in Tasks :
         (/\ task[t].entry = "dispatch"
          /\ task[t].pc \in {"groq", "sleep"}
          /\ task'[t] # task[t])
         => \/ task'[t].pc = "done"
            \/ /\ task'[t].pc \in {"groq", "sleep"}
               /\ Len(task'[t].trace) + task'[t].attempt
                    = Len(task[t].trace) + task[t].attempt + 1]_vars

\* C29: a dispatch calls the retry wrapper at most once, hence makes at most
\* max_retries AI calls and max_retries backoff waits, and when it is over it
\* has returned a TaskResult, which in the states input-required and failed
\* was produced without any AI call or wait.
C29_DispatchReturnsWithinBounds ==
  \A t \in Tasks :
    task[t].entry = "dispatch"
    => /\ task[t].calls <= 1
       /\ Len(task[t].trace) <= max_retries
       /\ Len(task[t].sleeps) <= max_retries
       /\ task[t].pc = "done"
          => /\ ~task[t].out.raised
             /\ task[t].out.value.status.state \in {"input-required", "failed"}
                => /\ task[t].calls = 0
                   /\ task[t].trace = <<>>
                   /\ task[t].sleeps = <<>>

\* Attempt k of the call of task t was rate limited: the AI service answered
\* it with HTTP 429.
RateLimitedAttempt(t, k) ==
  /\ task[t].outcomes[k].kind = "response"
  /\ task[t].outcomes[k].status = 429

\* The call of task t returned the "Max retries exceeded" fallback.
ReturnedMaxRetries(t) ==
  /\ task[t].pc = "done"
  /\ ~task[t].out.raised
  /\ IsDict(task[t].out.value)
  /\ "explanation" \in DOMAIN task[t].out.value.fields
  /\ task[t].out.value.fields.explanation = Str(ExplMaxRetries)

\* The whole seconds of the first n waits of task t together.
RECURSIVE WaitedSeconds(_, _)
WaitedSeconds(t, n) ==
  IF n = 0 THEN 0 ELSE WaitedSeconds(t, n - 1) + task[t].sleeps[n]

\* C30: the retry wrapper waits once after each rate-limited attempt k (k = 0,
\* 1, 2, the attempts being counted from 0), for 2^k seconds and a fraction of
\* a second, and after no other attempt; so the "Max retries exceeded"
\* fallback is returned only after 3 calls and 3 waits of at least 7 seconds
\* together.
C30_BackoffAfterRateLimit ==
  \A t \in Tasks :
    task[t].entry = "retry"
    => /\ Len(task[t].sleeps) <= Len(task[t].trace)
       /\ \A k \in 1..Len(task[t].trace) :
            RateLimitedAttempt(t, k) <=> k <= Len(task[t].sleeps)
       /\ \A k \in 1..Len(task[t].sleeps) : task[t].sleeps[k] = Pow2(k - 1)
       /\ ReturnedMaxRetries(t)
          => /\ Len(task[t].trace) = max_retries
             /\ Len(task[t].sleeps) = max_retries
             /\ WaitedSeconds(t, max_retries) >= 7

\* The dispatch of task t was called with an empty batch on a context id
\* under which a non-empty conversation was stored.
EmptyOnStored(t) ==
  /\ task[t].entry = "dispatch"
  /\ task[t].batch = <<>>
  /\ task[t].context_id \in DOMAIN task[t].prior
  /\ task[t].prior[task[t].context_id] # <<>>

\* The conversation stored under the context id of task t when its dispatch
\* was called.
StoredBefore(t) == task[t].prior[task[t].context_id]

\* The dispatch of task t and the store under its context id are as the
\* load step e of a dispatch and the decision d on it give: the locals, the
\* result with the outcomes of the AI requests of t, and the conversation
\* stored, which is the processed history until the dispatch ends completed
\* and the history of the TaskResult then.
RunsAs(t, e, d) ==
  /\ task[t].messages = e.messages
  /\ IF d.kind = "result"
       THEN /\ task[t].pc = "done"
            /\ task[t].out = Return(d.result)
            /\ memory[task[t].context_id] = e.messages
       ELSE /\ task[t].code = d.code
            /\ task[t].lang = d.lang
            /\ task[t].title = d.title
            /\ (task[t].pc # "done" \/ task[t].out.raised)
               => memory[task[t].context_id] = e.messages
            /\ (task[t].pc = "done" /\ ~task[t].out.raised)
               => \E c \in { Complete(e.messages, e.context_id, e.task_id,
                                      d.code, d.title,
                                      FinalAnalysis(t, d.code)) } :
                    /\ ~c.raised
                    /\ task[t].out = Return(c.value.result)
                    /\ task[t].out.value.status.state = "completed"
                    /\ memory[task[t].context_id]
                         = Append(e.messages, task[t].out.value.status.message)

\* C31: a dispatch with an empty batch on a context id whose stored
\* conversation H is not empty runs as the dispatch with batch H on that
\* store does: storing H changes nothing, H is the processed history and its
\* last message the active turn whatever its role, the locals, terminal
\* state, response, artifacts and history are the same, and the stored
\* conversation is H until the dispatch ends completed, then H followed by
\* the response.
C31_EmptyBatchRunsOnStored ==
  \A t \in Tasks :
    EmptyOnStored(t)
    => \E e \in { LoadStep(StoredBefore(t), task[t].context_id,
                           task[t].task_id, task[t].prior, 0) } :
         /\ e.messages = StoredBefore(t)
         /\ e.memory = task[t].prior
         /\ \E d \in { Decide(e) } : RunsAs(t, e, d)

\* A dispatch with an empty batch on a stored conversation of one user
\* message asking for a review has ended completed, and the store holds the
\* conversation followed by the response.
C31_Witness ==
  /\ EmptyOnStored(1)
  /\ task[1].pc = "done"
  /\ ~task[1].out.raised
  /\ task[1].out.value.status.state = "completed"
  /\ StoredBefore(1) = <<UserMessage(TxtSniffFenced)>>
  /\ Len(task[1].out.value.artifacts) = 3
  /\ memory[task[1].context_id]
       = Append(StoredBefore(1), task[1].out.value.status.message)

\* Task t called create_diff with two arguments that are texts or None, and
\* the call is over.
Diffed(t) ==
  /\ task[t].entry = "create_diff"
  /\ task[t].pc = "done"
  /\ \A k \in {1, 2} : task[t].request[k] = None \/ IsStr(task[t].request[k])

\* The lines of an argument of create_diff after normalisation: None is the
\* empty text, and the last line has its newline.
NormalLines(v) == DiffLines(OrEmpty(v).s)

\* The unified diff of the line sequences a and b in a fenced diff block.
FencedDiff(a, b) ==
  <<BQ,BQ,BQ,"d","i","f","f",NL>>
    \o RStrip(Join(<<>>, unified_diff(a, b))) \o <<NL>> \o Fence

\* C32: create_diff returns the "no changes" placeholder exactly when its
\* two arguments are the same sequence of lines after normalisation; when
\* they differ in a line, whatever its content, it returns their unified
\* diff in a fenced diff block.
C32_PlaceholderIffEqualLines ==
  \A t \in Tasks :
    Diffed(t)
    => \E a \in { NormalLines(task[t].request[1]) } :
         \E b \in { NormalLines(task[t].request[2]) } :
           /\ ~task[t].out.raised
           /\ (task[t].out.value = NoChangesDiff) <=> (a = b)
           /\ a # b => task[t].out.value = FencedDiff(a, b)

\* Task t called extract_code with a text that is not blank, and the call is
\* over.
ExtractsText(t) ==
  /\ Extracts(t)
  /\ IsStr(task[t].request[1])
  /\ Strip(task[t].request[1].s) # <<>>

\* What each step of extract_code yields on the stripped text s, taken alone:
\* the body of the first fenced block without its trailing blanks and the
\* tag of that block, the first inline group stripped, the indented lines
\* dedented, the lines that look like code.
FencedYield(s) ==
  IF FencedSearch(s).found THEN RStrip(FencedSearch(s).g2) ELSE <<>>

FencedLang(s) ==
  IF FencedSearch(s).g1 # <<>> THEN Lower(FencedSearch(s).g1) ELSE LangUnknown

InlineYield(s) ==
  IF InlineSearch(s).found THEN Strip(InlineSearch(s).g1) ELSE <<>>

IndentedYield(s) ==
  Strip(Join(<<NL>>, DedentAll(IndentedLines(SplitLines(s, FALSE)))))

RawYield(s) == Strip(Join(<<NL>>, CodeLines(SplitLines(s, FALSE))))

\* r is what the steps yielding f, i, d and h give in the order fenced,
\* inline, indented, raw lines, the first one that is not empty winning.
FirstYield(r, s, f, i, d, h) ==
  /\ f # <<>> => r = Extracted(f, FencedLang(s))
  /\ (f = <<>> /\ i # <<>>) => r = Extracted(i, LangUnknown)
  /\ (f = <<>> /\ i = <<>> /\ d # <<>>)
     => r = Extracted(d, _detect_language(d))
  /\ (f = <<>> /\ i = <<>> /\ d = <<>> /\ h # <<>>)
     => r = Extracted(h, _detect_language(h))
  /\ (r = Extracted(<<>>, <<>>))
       <=> (f = <<>> /\ i = <<>> /\ d = <<>> /\ h = <<>>)

\* C33: extract_code returns what the first of its four steps that yields
\* code gives, in the order fenced block, inline code, indented block, raw
\* code-like lines; a step that matches and yields no code is passed over,
\* and ("", "") is returned only when none of the four yields code.
C33_FirstYieldWins ==
  \A t \in Tasks :
    ExtractsText(t)
    => \E s \in { Strip(task[t].request[1].s) } :
         FirstYield(task[t].out.value, s, FencedYield(s), InlineYield(s),
                    IndentedYield(s), RawYield(s))

\* extract_code was called with a text that holds inline code before a
\* fenced block, and returned the body of the fenced block.
C33_Witness ==
  /\ ExtractsText(1)
  /\ task[1].request[1] = Str(TxtInlineThenFenced)
  /\ InlineYield(TxtInlineThenFenced) = <<"y">>
  /\ task[1].out.value = Extracted(<<"x">>, LangUnknown)

\* The step is a call of start_scheduler, or one of stop_scheduler.
StartCalled == lifespan'.starts = lifespan.starts + 1
StopCalled == lifespan'.stops = lifespan.stops + 1

\* The step completes the startup of the application, or fails it.
StartupCompletes == lifespan.phase = "down" /\ lifespan'.phase = "up"
StartupFails == lifespan.phase = "down" /\ lifespan'.phase = "failed"

Anonymous(a) ==
  a.user_id = None /\ a.channel_id = None /\ a.forwarded # None

\* C35: a request is counted under its user id when it carries one, else
\* under its channel id when it carries one, else under its forwarded
\* address; two requests without user id and channel id that come from
\* different addresses are counted under different identifiers, and one of
\* them is refused only when its own address used up the quota.
C35_IdentifierByPrecedence ==
  /\ \A i \in 1..Len(arrivals) :
       /\ arrivals[i].user_id # None
          => arrivals[i].identifier = arrivals[i].user_id
       /\ (arrivals[i].user_id = None /\ arrivals[i].channel_id # None)
          => arrivals[i].identifier = arrivals[i].channel_id
       /\ Anonymous(arrivals[i])
          => /\ arrivals[i].identifier = arrivals[i].forwarded
             /\ arrivals[i].limited
                => Cardinality({k \in 1..(i - 1) :
                                  /\ Anonymous(arrivals[k])
                                  /\ arrivals[k].forwarded = arrivals[i].forwarded
                                  /\ ~arrivals[k].limited})
                     >= RATE_LIMIT_PER_MINUTE
  /\ \A i, j \in 1..Len(arrivals) :
       (/\ Anonymous(arrivals[i])
        /\ Anonymous(arrivals[j])
        /\ arrivals[i].forwarded # arrivals[j].forwarded)
       => arrivals[i].identifier # arrivals[j].identifier

\* The step is the arrival of a request, which task 1 serves.
Arrives == requests' = requests + 1

\* The step leaves the timestamps logged under the identifiers other than id
\* as they were.
OtherQuotasKept(id) ==
  \A other \in (DOMAIN request_log \cup DOMAIN request_log') \ {id} :
    /\ other \in DOMAIN request_log
    /\ other \in DOMAIN request_log'
    /\ request_log'[other] = request_log[other]

\* The arrival of request req, whose identifier id has the unexpired
\* timestamps valid: a request that fails the check of the body, of the
\* envelope or of the method leaves the log as it was; a request that passes
\* them with quota left is logged at the time it arrives, whatever becomes
\* of it then, and is not refused; one without quota left is answered 429,
\* nothing is logged and neither its params nor process_messages come into
\* play.
QuotaStep(req, id, valid) ==
  /\ ~ReachesLimiter(req)
     => /\ request_log' = request_log
        /\ task'[1].response.status \in {400, 500}
  /\ ReachesLimiter(req) => OtherQuotasKept(id)
  /\ (ReachesLimiter(req) /\ Len(valid) < RATE_LIMIT_PER_MINUTE)
     => /\ LogGet(request_log', id) = Append(valid, now)
        /\ task'[1].response.status # 429
        /\ req.params # "valid"
           => /\ task'[1].response.status = 400
              /\ task'[1].response.code = -32602
              /\ ~task'[1].dispatched
  /\ (ReachesLimiter(req) /\ Len(valid) >= RATE_LIMIT_PER_MINUTE)
     => /\ LogGet(request_log', id) = valid
        /\ task'[1].response.status = 429
        /\ ~task'[1].dispatched

\* C36: the quota of an identifier is used between the check of the method
\* and that of the params: a request rejected for its body, its envelope or
\* its method uses none; a request that comes to the limiter with quota left
\* uses one unit, also when its params are then refused or the dispatch
\* fails; a request over quota is answered 429 whatever its params.
C36_QuotaBetweenMethodAndParams ==
  [][Arrives
     => \E req \in { task'[1].request } :
          \E id \in { Identifier(req) } :
            QuotaStep(req, id, Unexpired(LogGet(request_log, id), now))]_vars

\* Two requests came to the limiter and used the quota of their identifier;
\* a third one, whose params would be refused, is answered 429.
C36_Witness ==
  /\ requests = 3
  /\ Len(arrivals) = 3
  /\ ~arrivals[1].limited /\ ~arrivals[2].limited /\ arrivals[3].limited
  /\ task[1].request.params = "invalid"
  /\ task[1].response.status = 429
  /\ Len(LogGet(request_log, Identifier(task[1].request)))
       = RATE_LIMIT_PER_MINUTE

=============================================================================
